---- MODULE Spec2Model ----
(***************************************************************************)
(* Verification model of the mapping-configuration tool:                   *)
(*   - MappingService, the versioning and activation store                  *)
(*     (SpecStore: completed calls; SpecRace: two interleaved callers);     *)
(*   - convertMappingsToCanvas, the AI suggestion adapter (SpecAi), and the *)
(*     generate-ai-mapping request handler around it (SpecServe);           *)
(*   - handleImportMapping, its expansion audit and timer (SpecImport);     *)
(*   - exportUIMappingConfiguration, exportExecutionMapping and the node    *)
(*     importers (SpecGraph; SpecEdit, SpecChain, SpecCycle and SpecLegacy  *)
(*     for canvases with removed nodes, chains, circles and older files);   *)
(*   - the TargetNode schema editor (SpecSchema);                           *)
(*   - TemplateMapperService.generateMappingFromFiles (SpecGenerate);       *)
(*   - handleImportMapping against handleNewMapping (SpecReset).            *)
(* Strings whose characters matter (names that are trimmed, handles that    *)
(* are split) are sequences of one-character strings.                       *)
(***************************************************************************)
EXTENDS Integers, Sequences, FiniteSets, TLC

VARIABLES
    mappings,   \* the rows of the 'mappings' table
    nextId,     \* the next row id the table hands out
    last,       \* what the last completed MappingService call did
    calls,      \* SpecRace: each caller's running call and its position
    sawZero,    \* SpecRace: the raced group was seen with no active row
    aiInput,    \* SpecAi: the suggestions convertMappingsToCanvas has gone through
    aiCanvas,   \* SpecAi: its nodes, edges and addedNodeIds so far
    aiRequest,  \* SpecServe: the request the generate-ai-mapping handler served
    aiResponse, \* SpecServe: the Response it returned
    impEdges,   \* SpecImport: the imported edges the expansion audit has gone through
    impExpand,  \* SpecImport: sourceFieldsToExpand, node id -> set of paths
    impNodes,   \* SpecImport: the nodes handed to setNodes (empty before that)
    impTimer,   \* SpecImport: the 300 ms timeout of the import handler
    canvasEdges, \* SpecImport: the edges state of the canvas
    canvasCalls, \* SpecImport: the calls made on the canvas setters, in order
    gNodes,     \* SpecGraph: the canvas nodes
    gEdges,     \* SpecGraph: the canvas edges
    gConfig,    \* SpecGraph: the exported MappingConfiguration (NoConfig before)
    gImported,  \* SpecGraph: the graph imported from gConfig (NoGraph before)
    gExecution, \* SpecGraph: the exported ExecutionMapping list (none before)
    schemaFields, \* SpecSchema: the fields state of the TargetNode schema editor
    genRequest, \* SpecGenerate: the last generateMappingFromFiles request and its outcome
    genCalls,   \* SpecGenerate: the number of calls made to the edge function
    genSent,    \* SpecGenerate: the body of the last call to the edge function
    resetLoaded, \* SpecReset: the configuration whose nodes the canvas was last given
    resetEdges, \* SpecReset: the edges state of the canvas
    resetTimers, \* SpecReset: the edge lists of the import timeouts still to fire
    resetImports \* SpecReset: the number of imports handled

storeVars == <<mappings, nextId, last>>
raceVars == <<calls, sawZero>>
aiVars == <<aiInput, aiCanvas>>
serveVars == <<aiRequest, aiResponse>>
impVars == <<impEdges, impExpand, impNodes, impTimer, canvasEdges, canvasCalls>>
graphVars == <<gNodes, gEdges, gConfig, gImported, gExecution>>
schemaVars == <<schemaFields>>
genVars == <<genRequest, genCalls, genSent>>
resetVars == <<resetLoaded, resetEdges, resetTimers, resetImports>>
vars == <<storeVars, raceVars, aiVars, serveVars, impVars, graphVars, schemaVars, genVars,
          resetVars>>

\* what the actions of one part leave alone
notStore == <<raceVars, aiVars, serveVars, impVars, graphVars, schemaVars, genVars,
    resetVars>>
notStoreRace == <<aiVars, serveVars, impVars, graphVars, schemaVars, genVars,
    resetVars>>
notAi == <<storeVars, raceVars, serveVars, impVars, graphVars, schemaVars, genVars,
    resetVars>>
notServe == <<storeVars, raceVars, aiVars, impVars, graphVars, schemaVars, genVars,
    resetVars>>
notImport == <<storeVars, raceVars, aiVars, serveVars, graphVars, schemaVars, genVars,
    resetVars>>
notGraph == <<storeVars, raceVars, aiVars, serveVars, impVars, schemaVars, genVars,
    resetVars>>
notSchema == <<storeVars, raceVars, aiVars, serveVars, impVars, graphVars, genVars,
    resetVars>>
notGenerate == <<storeVars, raceVars, aiVars, serveVars, impVars, graphVars, schemaVars,
    resetVars>>
notReset == <<storeVars, raceVars, aiVars, serveVars, impVars, graphVars, schemaVars,
    genVars>>

----------------------------------------------------------------------------
(* Bounds *)

MaxRecords == 2
MaxSuggestions == 2
MaxSourceFields == 2
MaxImportEdges == 2
MaxNodes == 3
MaxEdges == 2
MaxChainNodes == 4
MaxChainEdges == 3
MaxConnects == 2
MaxRawLen == 5
MaxFields == 3
MaxFileLen == 22
MaxRequests == 2
MaxImports == 3
MaxWalk == 6

----------------------------------------------------------------------------
(* Strings *)

RECURSIVE TrimStart(_)
TrimStart(s) ==
    IF s # <<>> /\ Head(s) = " " THEN TrimStart(Tail(s)) ELSE s

RECURSIVE TrimEnd(_)
TrimEnd(s) ==
    IF s # <<>> /\ s[Len(s)] = " " THEN TrimEnd(SubSeq(s, 1, Len(s) - 1)) ELSE s

\* String.prototype.trim
Trim(s) == TrimEnd(TrimStart(s))

----------------------------------------------------------------------------
(* convertMappingsToCanvas: the AI suggestion adapter *)

Fields == {"x", "y"}
Values == {"p", "q"}

SeqsUpTo(S, n) == UNION {[1..k -> S] : k \in 0..n}

Suggestion(target, type, source, sources, value) ==
    [target_field |-> target, mapping_type |-> type, source_field |-> source,
     source_fields |-> sources, value |-> value]

\* "lookup" stands for a mapping_type outside the MappingSuggestion union
Suggestions ==
    UNION {
        {Suggestion(t, ty, f, <<>>, "") :
            f \in Fields, ty \in {"direct", "table", "date_conversion", "split"}}
        \cup {Suggestion(t, "static", "", <<>>, v) : v \in Values}
        \cup {Suggestion(t, ty, "", <<>>, "") : ty \in {"conditional", "skip", "lookup"}}
        \cup {Suggestion(t, "concat", "", fs, "") : fs \in SeqsUpTo(Fields, MaxSourceFields)}
        : t \in Fields}

\* `${prefix}_${field}`
NodeId(prefix, field) == <<prefix, field>>

\* data: the field, value or source fields the node carries, as a list
CanvasNode(id, type, data) == [id |-> id, type |-> type, data |-> data]
CanvasEdge(type, from, to) == [type |-> type, from |-> from, to |-> to]

EmptyCanvas == [nodes |-> <<>>, edges |-> <<>>, added |-> {}]

\* a push that does not look the id up first
PushNodeAlways(st, node) ==
    [st EXCEPT !.nodes = Append(st.nodes, node), !.added = st.added \cup {node.id}]

\* if (!addedNodeIds.has(id)) { nodes.push(node); addedNodeIds.add(id) }
PushNode(st, node) ==
    IF node.id \in st.added THEN st
    ELSE [st EXCEPT !.nodes = Append(st.nodes, node), !.added = st.added \cup {node.id}]

PushEdge(st, edge) == [st EXCEPT !.edges = Append(st.edges, edge)]

AddSource(st, field) ==
    PushNode(st, CanvasNode(NodeId("source", field), "SourceNode", <<field>>))

\* a source node and an edge into the transform node: the direct-free arms
\* table, date_conversion and split
SourceInto(st, field, nodeId) ==
    PushEdge(AddSource(st, field), CanvasEdge("edge", NodeId("source", field), nodeId))

\* for (const field of map.source_fields) { addSource(field); edges.push(...) }
ConcatSourcesFirstOnly(st, fields, nodeId) ==
    IF fields = <<>> THEN st ELSE SourceInto(st, Head(fields), nodeId)

RECURSIVE ConcatSources(_, _, _)
ConcatSources(st, fields, nodeId) ==
    IF fields = <<>> THEN st
    ELSE ConcatSources(SourceInto(st, Head(fields), nodeId), Tail(fields), nodeId)

\* the transform node of an arm that leaves the switch with `break`
TransformNode(map) ==
    LET t == map.target_field
    IN CASE map.mapping_type = "static" ->
                CanvasNode(NodeId("static", t), "StaticValueNode", <<map.value>>)
         [] map.mapping_type = "conditional" ->
                CanvasNode(NodeId("if", t), "IfThenNode", <<"conditions">>)
         [] map.mapping_type = "table" ->
                CanvasNode(NodeId("convert", t), "ConversionMappingNode", <<map.source_field>>)
         [] map.mapping_type = "date_conversion" ->
                CanvasNode(NodeId("date", t), "TransformNode", <<map.source_field>>)
         [] map.mapping_type = "concat" ->
                CanvasNode(NodeId("concat", t), "ConcatTransformNode", map.source_fields)
         [] map.mapping_type = "split" ->
                CanvasNode(NodeId("split", t), "SplitterTransformNode", <<map.source_field>>)

\* the edge to the target pushed without the node
FinishTransformEdgeOnly(st, node, targetId) ==
    PushEdge(st, CanvasEdge("edge", node.id, targetId))

\* if (node && !added.has(node.id)) push; if (node) edges.push(node -> target)
FinishTransform(st, node, targetId) ==
    PushEdge(PushNode(st, node), CanvasEdge("edge", node.id, targetId))

\* a variant that leaves the loop body as soon as the target node exists
ProcessMappingSkipKnownTarget(st, map) ==
    LET targetId == NodeId("target", map.target_field)
        withTarget == PushNode(st, CanvasNode(targetId, "TargetNode", <<map.target_field>>))
    IN  IF targetId \in st.added THEN st
        ELSE IF map.mapping_type = "direct"
           THEN PushEdge(AddSource(withTarget, map.source_field),
                         CanvasEdge("direct", NodeId("source", map.source_field), targetId))
        ELSE IF map.mapping_type \in {"static", "conditional"}
           THEN FinishTransform(withTarget, TransformNode(map), targetId)
        ELSE IF map.mapping_type \in {"table", "date_conversion", "split"}
           THEN FinishTransform(
                    SourceInto(withTarget, map.source_field, TransformNode(map).id),
                    TransformNode(map), targetId)
        ELSE IF map.mapping_type = "concat"
           THEN FinishTransform(
                    ConcatSources(withTarget, map.source_fields, TransformNode(map).id),
                    TransformNode(map), targetId)
        ELSE withTarget

\* one iteration of `for (const map of mappings)`
ProcessMapping(st, map) ==
    LET targetId == NodeId("target", map.target_field)
        withTarget == PushNode(st, CanvasNode(targetId, "TargetNode", <<map.target_field>>))
    IN  IF map.mapping_type = "direct"
           THEN PushEdge(AddSource(withTarget, map.source_field),
                         CanvasEdge("direct", NodeId("source", map.source_field), targetId))
        ELSE IF map.mapping_type \in {"static", "conditional"}
           THEN FinishTransform(withTarget, TransformNode(map), targetId)
        ELSE IF map.mapping_type \in {"table", "date_conversion", "split"}
           THEN FinishTransform(
                    SourceInto(withTarget, map.source_field, TransformNode(map).id),
                    TransformNode(map), targetId)
        ELSE IF map.mapping_type = "concat"
           THEN FinishTransform(
                    ConcatSources(withTarget, map.source_fields, TransformNode(map).id),
                    TransformNode(map), targetId)
        ELSE \* case "skip" and default: continue
             withTarget

RECURSIVE ConvertFrom(_, _)
ConvertFrom(st, list) ==
    IF list = <<>> THEN st ELSE ConvertFrom(ProcessMapping(st, Head(list)), Tail(list))

\* convertMappingsToCanvas(mappings): {nodes, edges}
ConvertMappingsToCanvas(list) ==
    LET st == ConvertFrom(EmptyCanvas, list)
    IN [nodes |-> st.nodes, edges |-> st.edges]

\* the loop takes the next suggestion of the list
ConvertStep(map) ==
    /\ Len(aiInput) < MaxSuggestions
    /\ aiInput' = Append(aiInput, map)
    /\ aiCanvas' = ProcessMapping(aiCanvas, map)
    /\ UNCHANGED notAi

----------------------------------------------------------------------------
(* The generate-ai-mapping request handler.  The oracle's answer is a list
   of tokens: "[", "]" and "," as themselves, "o" for the text of one
   suggestion object, "n" for the literal null, "x" for a word of prose. *)

RawTokens == {"[", "]", ",", "o", "n", "x"}

RawResponses == UNION {[1..k -> RawTokens] : k \in 0..MaxRawLen}

\* raw.indexOf(c) and raw.lastIndexOf(c), counted from 0, -1 without c
IndexOf(raw, c) ==
    IF \E i \in 1..Len(raw) : raw[i] = c
    THEN (CHOOSE i \in 1..Len(raw) : raw[i] = c /\ \A j \in 1..(i - 1) : raw[j] # c) - 1
    ELSE -1

LastIndexOf(raw, c) ==
    IF \E i \in 1..Len(raw) : raw[i] = c
    THEN (CHOOSE i \in 1..Len(raw) : raw[i] = c /\ \A j \in (i + 1)..Len(raw) : raw[j] # c) - 1
    ELSE -1

\* raw.slice(start, end) for end >= 0: a negative start counts from the end
Slice(raw, start, end) ==
    LET from == IF start < 0 THEN (IF Len(raw) + start < 0 THEN 0 ELSE Len(raw) + start)
                ELSE start
        to == IF end > Len(raw) THEN Len(raw) ELSE end
    IN  IF from >= to THEN <<>> ELSE SubSeq(raw, from + 1, to)

\* the suggestion whose text "o" stands for
ParsedObject == Suggestion("x", "direct", "y", <<>>, "")

JsonObject == [kind |-> "object", items |-> <<>>]
JsonNull == [kind |-> "null", items |-> <<>>]
JsonArray(items) == [kind |-> "array", items |-> items]

\* a failed parse, and a value parsed up to (not including) position next
NoParse == [ok |-> FALSE, next |-> 0, value |-> JsonNull]
Parsed(next, value) == [ok |-> TRUE, next |-> next, value |-> value]

\* the JSON grammar on the tokens: value ::= o | n | [ ] | [ value {, value} ]
RECURSIVE ParseValue(_, _)
RECURSIVE ParseElements(_, _, _)
ParseValue(s, i) ==
    IF i > Len(s) THEN NoParse
    ELSE IF s[i] = "o" THEN Parsed(i + 1, JsonObject)
    ELSE IF s[i] = "n" THEN Parsed(i + 1, JsonNull)
    ELSE IF s[i] = "["
         THEN IF i + 1 <= Len(s) /\ s[i + 1] = "]" THEN Parsed(i + 2, JsonArray(<<>>))
              ELSE ParseElements(s, i + 1, <<>>)
    ELSE NoParse

ParseElements(s, i, items) ==
    LET element == ParseValue(s, i)
    IN  IF ~element.ok \/ element.next > Len(s) THEN NoParse
        ELSE IF s[element.next] = ","
             THEN ParseElements(s, element.next + 1, Append(items, element.value))
        ELSE IF s[element.next] = "]"
             THEN Parsed(element.next + 1, JsonArray(Append(items, element.value)))
        ELSE NoParse

\* a parser that takes the empty text for the empty array
JsonParseLenient(s) ==
    IF s = <<>> THEN Parsed(1, JsonArray(<<>>))
    ELSE LET value == ParseValue(s, 1)
         IN  IF value.ok /\ value.next = Len(s) + 1 THEN value ELSE NoParse

\* JSON.parse: the whole text is one value, or it throws
JsonParse(s) ==
    LET value == ParseValue(s, 1)
    IN  IF value.ok /\ value.next = Len(s) + 1 THEN value ELSE NoParse

\* what the loop of convertMappingsToCanvas reads of an element: the fields
\* of the object, nothing but undefined on an array
AsSuggestion(value) ==
    IF value.kind = "object" THEN ParsedObject
    ELSE Suggestion("undefined", "undefined", "undefined", <<>>, "undefined")

\* map.mapping_type on null throws a TypeError
ConvertThrows(parsed) ==
    \E i \in 1..Len(parsed.items) : parsed.items[i].kind = "null"

\* the nodes of one kind, in their order
OfLayoutKind(nodes, kind) ==
    LET kindOf(n) == IF n.type = "SourceNode" THEN "source"
                     ELSE IF n.type = "TargetNode" THEN "target" ELSE "transform"
        keep(n) == kindOf(n) = kind
    IN  SelectSeq(nodes, keep)

\* a layout that puts every node in the first column, by its place in the list
LayoutInOneColumn(nodes, id) ==
    LET at == {j \in 1..Len(nodes) : nodes[j].id = id}
    IN  IF at = {} THEN [x |-> 100, y |-> 100]
        ELSE [x |-> 100, y |-> 100 + ((CHOOSE j \in at : \A k \in at : k <= j) - 1) * 120]

\* calculateLayout: sources at x 100, transforms at 450, targets at 800,
\* each kind 120 apart from y 100
LayoutOf(nodes, id) ==
    LET place(kind, x) ==
            LET list == OfLayoutKind(nodes, kind)
            IN  {[x |-> x, y |-> 100 + (i - 1) * 120] : i \in {j \in 1..Len(list) : list[j].id = id}}
        places == place("source", 100) \cup place("transform", 450) \cup place("target", 800)
    IN  IF places = {} THEN [x |-> 100, y |-> 100]
        ELSE CHOOSE p \in places : \A q \in places : q.x <= p.x /\ (q.x = p.x => q.y <= p.y)

\* applyTemplate
ApplyTemplate(aiCanvasResult) ==
    [nodes |-> [i \in 1..Len(aiCanvasResult.nodes) |->
                   LET n == aiCanvasResult.nodes[i]
                   IN  [id |-> n.id, type |-> n.type,
                        position |-> LayoutOf(aiCanvasResult.nodes, n.id)]],
     edges |-> [i \in 1..Len(aiCanvasResult.edges) |->
                   LET e == aiCanvasResult.edges[i]
                   IN  [id |-> <<e.from, e.to, i - 1>>, source |-> e.from, target |-> e.to,
                        type |-> "smoothstep"]]]

ErrorResponse(status, message) == [status |-> status, body |-> [error |-> message]]

\* the tail of the handler, from the oracle's answer to the Response
AnswerFrom(raw) ==
    LET jsonStart == IndexOf(raw, "[")
        jsonEnd == LastIndexOf(raw, "]") + 1
        jsonString == Slice(raw, jsonStart, jsonEnd)
        parsed == JsonParse(jsonString)
        list == [i \in 1..Len(parsed.value.items) |-> AsSuggestion(parsed.value.items[i])]
    IN  IF ~parsed.ok THEN ErrorResponse(500, "SyntaxError")
        ELSE IF ConvertThrows(parsed.value) THEN ErrorResponse(500, "TypeError")
        ELSE [status |-> 200,
              body |-> [mappings |-> parsed.value.items,
                        canvas |-> ApplyTemplate(ConvertMappingsToCanvas(list))]]

AuthStates == {"none", "invalid", "valid"}

NoRequest == [auth |-> "none", key |-> FALSE, raw |-> <<>>, served |-> FALSE]

ServeIdle ==
    /\ aiRequest = NoRequest
    /\ aiResponse = ErrorResponse(0, "")

\* serve: one POST request, from its headers to its Response
Serve(auth, key, raw) ==
    /\ ~aiRequest.served
    /\ aiRequest' = [auth |-> auth, key |-> key, raw |-> raw, served |-> TRUE]
    /\ aiResponse' =
          IF auth = "none" THEN ErrorResponse(401, "Authentication required")
          ELSE IF auth = "invalid" THEN ErrorResponse(401, "Invalid authentication")
          ELSE IF ~key THEN ErrorResponse(400, "OpenAI API key not found")
          ELSE AnswerFrom(raw)
    /\ UNCHANGED notServe
----------------------------------------------------------------------------
(* MappingService: the store *)

Users == {"u1"}
NoUser == ""

\* the names callers pass: "a", "a " (trailing blank), "b"
Names == {<<"a">>, <<"a", " ">>, <<"b">>}

DefaultCategory == "General"
Categories == {"General", "X"}
NullCategory == "NULL"

NoRow == [id |-> 0]

\* a service that takes every caller for a signed-in user
UnauthenticatedNever(u) == FALSE

\* if (!userId)
Unauthenticated(u) == u = NoUser

\* the name inside execution_config when the row has no execution_config
NoExecutionConfig == <<>>

\* a row; uiName and executionName are ui_config.name and execution_config.name
Row(id, u, name, category, group, version, active, uiName, executionName) ==
    [id |-> id, user_id |-> u, name |-> name, category |-> category,
     mapping_group_id |-> group, version |-> version, is_active |-> active,
     ui_config_name |-> uiName, execution_config_name |-> executionName]

\* .eq('user_id').eq('name').eq('is_active', true).maybeSingle():
\* the row when exactly one matches, no data otherwise
SelectActiveByName(M, u, name) ==
    LET rows == {r \in M : r.user_id = u /\ r.name = name /\ r.is_active}
    IN IF Cardinality(rows) = 1 THEN CHOOSE r \in rows : TRUE ELSE NoRow

\* the variant that compares the name as passed
SelectNameConflictUntrimmed(M, u, name) ==
    \E r \in M : r.user_id = u /\ r.name = name

\* .eq('user_id').eq('name', name.trim()).limit(1) returns a row
SelectNameConflict(M, u, name) ==
    \E r \in M : r.user_id = u /\ r.name = Trim(name)

\* rpc get_next_version(user, name, category)
GetNextVersion(M, u, name, category) ==
    LET vs == {r.version : r \in {x \in M : x.user_id = u /\ x.name = name
                                            /\ x.category = category}}
    IN IF vs = {} THEN 1 ELSE 1 + CHOOSE v \in vs : \A w \in vs : w <= v

\* update({is_active: false}).eq('user_id').eq('mapping_group_id')
DeactivateGroupSkipped(M, u, g) == M

DeactivateGroup(M, u, g) ==
    {IF r.user_id = u /\ r.mapping_group_id = g
        THEN [r EXCEPT !.is_active = FALSE] ELSE r : r \in M}

\* insert({... is_active: true})
InsertInactive(M, row) == M \cup {[row EXCEPT !.is_active = FALSE]}

InsertActive(M, row) == M \cup {row}

\* update({is_active}).eq('id').eq('user_id')
SetActiveById(M, u, id, isActive) ==
    {IF r.id = id /\ r.user_id = u
        THEN [r EXCEPT !.is_active = isActive] ELSE r : r \in M}

\* update({is_active: false}).eq('user_id').eq('name') and then
\* .eq('category', category) or .is('category', null)
DeactivateByNameCategory(M, u, name, category) ==
    LET wanted == IF category # "" THEN category ELSE NullCategory
    IN {IF r.user_id = u /\ r.name = name /\ r.category = wanted
           THEN [r EXCEPT !.is_active = FALSE] ELSE r : r \in M}

\* delete().eq('id').eq('user_id')
DeleteById(M, u, id) == {r \in M : ~(r.id = id /\ r.user_id = u)}

\* .eq('id').eq('user_id').single()
SelectById(M, u, id) ==
    LET rows == {r \in M : r.id = id /\ r.user_id = u}
    IN IF rows = {} THEN NoRow ELSE CHOOSE r \in rows : TRUE

\* What a completed call reports: the operation, whether it resolved, the
\* error it rejected with, and for a resolved call the row and group it acted on;
\* rows are the rows a query returned.
Result(op, ok, err, id, name, category, group) ==
    IF ok THEN [op |-> op, ok |-> TRUE, err |-> "", id |-> id, name |-> name,
                category |-> category, group |-> group, rows |-> {}]
    ELSE [op |-> op, ok |-> FALSE, err |-> err, id |-> 0, name |-> <<>>,
          category |-> "", group |-> 0, rows |-> {}]

NoResult == Result("none", TRUE, "", 0, <<>>, "", 0)

----------------------------------------------------------------------------
(* MappingService: completed calls (SpecStore) *)

SaveFailPoints == {"none", "version", "deactivate", "insert"}
ActivateFailPoints == {"none", "deactivate", "activate"}

\* category !== 'General' ? category : (existingMapping?.category || 'General')
FinalCategory(category, existing) ==
    IF category # DefaultCategory THEN category
    ELSE IF existing # NoRow THEN existing.category ELSE DefaultCategory

\* existingMapping?.mapping_group_id || crypto.randomUUID()
GroupIdFor(existing, fresh) ==
    IF existing # NoRow THEN existing.mapping_group_id ELSE fresh

\* providedVersion, or get_next_version when none is given (0)
VersionFor(M, u, name, category, providedVersion) ==
    IF providedVersion # 0 THEN providedVersion
    ELSE GetNextVersion(M, u, name, category)

\* the table a saveMapping call leaves: untouched when it stops before or at
\* the deactivation, deactivated when the insert fails, else with the new row
StoreAfterSaveKeepsDeactivation(M, deactivated, row, fail) ==
    IF fail = "version" THEN M
    ELSE IF fail \in {"deactivate", "insert"} THEN deactivated
    ELSE InsertActive(deactivated, row)

StoreAfterSave(M, deactivated, row, fail) ==
    IF fail \in {"version", "deactivate"} THEN M
    ELSE IF fail = "insert" THEN deactivated
    ELSE InsertActive(deactivated, row)

\* executionConfig: whether the caller passes one (it carries the name)
SaveMapping(u, name, category, providedVersion, executionConfig, fail) ==
    /\ nextId <= MaxRecords
    /\ LET existing == SelectActiveByName(mappings, u, name)
           finalCategory == FinalCategory(category, existing)
           group == GroupIdFor(existing, nextId)
           version == VersionFor(mappings, u, name, finalCategory, providedVersion)
           deactivated == IF existing # NoRow
                             THEN DeactivateGroup(mappings, u, group)
                             ELSE mappings
           row == Row(nextId, u, name, finalCategory, group, version, TRUE, name,
                      IF executionConfig THEN name ELSE NoExecutionConfig)
           res(ok, err, id) == Result("save", ok, err, id, name, finalCategory, group)
       IN  /\ fail = "version" => providedVersion = 0
           /\ fail = "deactivate" => existing # NoRow
           /\ IF Unauthenticated(u)
                 THEN /\ fail = "none"
                      /\ last' = res(FALSE, "auth", 0)
                      /\ UNCHANGED <<mappings, nextId>>
              ELSE IF existing = NoRow /\ SelectNameConflict(mappings, u, name)
                 THEN /\ fail = "none"
                      /\ last' = res(FALSE, "conflict", 0)
                      /\ UNCHANGED <<mappings, nextId>>
              ELSE IF fail # "none"
                 THEN /\ mappings' = StoreAfterSave(mappings, deactivated, row, fail)
                      /\ last' = res(FALSE, fail, 0)
                      /\ UNCHANGED nextId
              ELSE /\ mappings' = StoreAfterSave(mappings, deactivated, row, fail)
                   /\ nextId' = nextId + 1
                   /\ last' = res(TRUE, "", nextId)
    /\ UNCHANGED notStore

ToggleMappingStatus(id, u, isActive) ==
    /\ IF Unauthenticated(u)
          THEN /\ last' = Result("toggle", FALSE, "auth", 0, <<>>, "", 0)
               /\ UNCHANGED mappings
          ELSE /\ mappings' = SetActiveById(mappings, u, id, isActive)
               /\ last' = Result("toggle", TRUE, "", id, <<>>, "", 0)
    /\ UNCHANGED <<nextId, notStore>>

ActivateVersion(id, u, name, category, fail) ==
    /\ LET deactivated == DeactivateByNameCategory(mappings, u, name, category)
           res(ok, err) == Result("activate", ok, err, id, name, category, 0)
       IN  IF Unauthenticated(u)
              THEN /\ fail = "none"
                   /\ last' = res(FALSE, "auth")
                   /\ UNCHANGED mappings
           ELSE IF fail = "deactivate"
              THEN /\ last' = res(FALSE, fail)
                   /\ UNCHANGED mappings
           ELSE IF fail = "activate"
              THEN /\ mappings' = deactivated
                   /\ last' = res(FALSE, fail)
           ELSE /\ mappings' = SetActiveById(deactivated, u, id, TRUE)
                /\ last' = res(TRUE, "")
    /\ UNCHANGED <<nextId, notStore>>

DeleteMapping(id, u) ==
    /\ IF Unauthenticated(u)
          THEN /\ last' = Result("delete", FALSE, "auth", 0, <<>>, "", 0)
               /\ UNCHANGED mappings
          ELSE /\ mappings' = DeleteById(mappings, u, id)
               /\ last' = Result("delete", TRUE, "", id, <<>>, "", 0)
    /\ UNCHANGED <<nextId, notStore>>

\* .eq('user_id').eq('name', name.trim()).neq('mapping_group_id', group).limit(1)
SelectNameConflictOutside(M, u, name, group) ==
    \E r \in M : r.user_id = u /\ r.name = Trim(name) /\ r.mapping_group_id # group

\* one pass of the loop: update({name: name.trim(), category, ui_config,
\* execution_config}).eq('id'); a row without execution_config gets none
RenameRowColumnOnly(r, name, category) ==
    [r EXCEPT !.name = Trim(name), !.category = category]

RenameRow(r, name, category) ==
    [r EXCEPT !.name = Trim(name), !.category = category,
              !.ui_config_name = Trim(name),
              !.execution_config_name =
                  IF r.execution_config_name # NoExecutionConfig
                  THEN Trim(name) ELSE NoExecutionConfig]

\* the loop over the group's rows, as far as it got: the rows in done
RenameGroup(M, u, group, name, category, done) ==
    {IF r.user_id = u /\ r.mapping_group_id = group /\ r.id \in done
        THEN RenameRow(r, name, category) ELSE r : r \in M}

GroupRowIds(M, u, group) ==
    {r.id : r \in {x \in M : x.user_id = u /\ x.mapping_group_id = group}}

UpdateFailPoints == {"none", "fetch", "update"}

\* the call stops before the loop: no user, no row id, or a name conflict
UpdateStopsEarly(M, id, u, name) ==
    \/ Unauthenticated(u)
    \/ SelectById(M, u, id) = NoRow
    \/ SelectNameConflictOutside(M, u, name, SelectById(M, u, id).mapping_group_id)

\* done: the rows the loop updated before an update failed (all when none did)
UpdateMapping(id, u, name, category, fail, done) ==
    /\ UpdateStopsEarly(mappings, id, u, name) => (fail = "none" /\ done = {})
    /\ fail = "fetch" => done = {}
    /\ LET existing == SelectById(mappings, u, id)
           res(ok, err) == Result("update", ok, err, id, Trim(name), category,
                                  IF existing # NoRow THEN existing.mapping_group_id ELSE 0)
       IN  IF Unauthenticated(u)
              THEN /\ last' = res(FALSE, "auth")
                   /\ UNCHANGED mappings
           ELSE IF existing = NoRow
              THEN /\ last' = res(FALSE, "notfound")
                   /\ UNCHANGED mappings
           ELSE IF SelectNameConflictOutside(mappings, u, name, existing.mapping_group_id)
              THEN /\ last' = res(FALSE, "conflict")
                   /\ UNCHANGED mappings
           ELSE IF fail = "fetch"
              THEN /\ last' = res(FALSE, fail)
                   /\ UNCHANGED mappings
           ELSE LET all == GroupRowIds(mappings, u, existing.mapping_group_id)
                IN  /\ done \subseteq all
                    /\ (fail = "none") <=> (done = all)
                    /\ mappings' = RenameGroup(mappings, u, existing.mapping_group_id,
                                               name, category, done)
                    /\ last' = res(fail = "none", fail)
    /\ UNCHANGED <<nextId, notStore>>

\* newVersion = 'v1.01'
BootstrapVersion == 1

CopyMapping(id, u, newName) ==
    /\ nextId <= MaxRecords
    /\ LET original == SelectById(mappings, u, id)
           res(ok, err, newId, cat) ==
               Result("copy", ok, err, newId, Trim(newName), cat, nextId)
       IN  IF Unauthenticated(u)
              THEN /\ last' = res(FALSE, "auth", 0, "")
                   /\ UNCHANGED <<mappings, nextId>>
           ELSE IF SelectNameConflict(mappings, u, newName)
              THEN /\ last' = res(FALSE, "conflict", 0, "")
                   /\ UNCHANGED <<mappings, nextId>>
           ELSE IF original = NoRow
              THEN /\ last' = res(FALSE, "notfound", 0, "")
                   /\ UNCHANGED <<mappings, nextId>>
           ELSE /\ mappings' = InsertActive(mappings,
                        Row(nextId, u, Trim(newName), original.category, nextId,
                            BootstrapVersion, TRUE, Trim(newName),
                            IF original.execution_config_name # NoExecutionConfig
                            THEN Trim(newName) ELSE NoExecutionConfig))
                /\ nextId' = nextId + 1
                /\ last' = res(TRUE, "", nextId, original.category)
    /\ UNCHANGED notStore

\* .order('name', { ascending: true }): names compare character by character
CharRank(c) == CASE c = " " -> 0 [] c = "a" -> 1 [] c = "b" -> 2

RECURSIVE NameBefore(_, _)
NameBefore(a, b) ==
    IF b = <<>> THEN FALSE
    ELSE IF a = <<>> THEN TRUE
    ELSE IF Head(a) # Head(b) THEN CharRank(Head(a)) < CharRank(Head(b))
    ELSE NameBefore(Tail(a), Tail(b))

\* .order('name', { ascending: true }).order('version', { ascending: false })
\* may return row x before row y
MayPrecede(x, y) ==
    \/ NameBefore(x.name, y.name)
    \/ x.name = y.name /\ x.version >= y.version

\* the lists the select may return: the user's rows in an order the two
\* order clauses allow
SelectOrdered(M, u) ==
    LET rows == {r \in M : r.user_id = u}
        n == Cardinality(rows)
    IN  {order \in [1..n -> rows] :
            /\ \A i, j \in 1..n : i < j => order[i] # order[j]
            /\ \A i, j \in 1..n : i < j => MayPrecede(order[i], order[j])}

\* the forEach over data: the first row of a group stays unless a later row
\* is active and the kept one is not
RECURSIVE GroupLatest(_, _, _)
GroupLatest(data, i, groupMap) ==
    IF i > Len(data) THEN groupMap
    ELSE LET item == data[i]
             groupId == item.mapping_group_id
             set == [g \in DOMAIN groupMap \cup {groupId} |->
                        IF g = groupId THEN item ELSE groupMap[g]]
         IN  IF groupId \notin DOMAIN groupMap THEN GroupLatest(data, i + 1, set)
             ELSE IF item.is_active /\ ~groupMap[groupId].is_active
                  THEN GroupLatest(data, i + 1, set)
             ELSE GroupLatest(data, i + 1, groupMap)

\* Array.from(groupMap.values())
LatestOf(data) ==
    LET groupMap == GroupLatest(data, 1, [g \in {} |-> NoRow])
    IN  {groupMap[g] : g \in DOMAIN groupMap}

\* data: the list the select returned
GetLatestMappings(u, data) ==
    /\ IF Unauthenticated(u)
          THEN /\ data = <<>>
               /\ last' = Result("latest", FALSE, "auth", 0, <<>>, "", 0)
          ELSE /\ data \in SelectOrdered(mappings, u)
               /\ last' = [Result("latest", TRUE, "", 0, <<>>, "", 0)
                              EXCEPT !.rows = LatestOf(data)]
    /\ UNCHANGED <<mappings, nextId, notStore>>

\* a query of the table: rows is what the select matches
Query(op, u, rows, fail) ==
    /\ last' = IF Unauthenticated(u) THEN Result(op, FALSE, "auth", 0, <<>>, "", 0)
               ELSE IF fail THEN Result(op, FALSE, "fetch", 0, <<>>, "", 0)
               ELSE [Result(op, TRUE, "", 0, <<>>, "", 0) EXCEPT !.rows = rows]
    /\ UNCHANGED <<mappings, nextId, notStore>>

GetMappings(u, fail) ==
    Query("all", u, {r \in mappings : r.user_id = u}, fail)

\* rpc get_active_mapping(p_user_id, p_name, p_category); "" is no category
GetActiveMapping(name, u, category, fail) ==
    Query("active", u,
          {r \in mappings : /\ r.user_id = u /\ r.name = name /\ r.is_active
                            /\ (category # "" => r.category = category)},
          fail)

\* if (category) query.eq('category', category)
GetMappingsByCategory(u, category, fail) ==
    Query("byCategory", u,
          {r \in mappings : r.user_id = u /\ (category # "" => r.category = category)},
          fail)

GetMappingVersions(u, name, category, fail) ==
    Query("versions", u,
          {r \in mappings : r.user_id = u /\ r.name = name /\ r.category = category},
          fail)

Ids == 1..MaxRecords
ProvidedVersions == {0, 1}

\* the active rows of one mapping group
ActiveInGroup(M, g) == {r \in M : r.mapping_group_id = g /\ r.is_active}

----------------------------------------------------------------------------
(* MappingService: two callers on one group, one awaited request per step  *)
(* (SpecRace)                                                               *)

Callers == {1, 2}

\* a caller's call: its position, the operation and its id argument, and what
\* saveMapping has read so far (existingMapping, version)
Call(pc, op, id, existing, version, err) ==
    [pc |-> pc, op |-> op, id |-> id, existing |-> existing, version |-> version,
     err |-> err]

RaceIdle == [c \in Callers |-> Call("idle", "none", 0, NoRow, 0, "")]

RaceName == <<"a">>
RaceGroup == 1

\* the group after two saves of "a": v1 superseded, v2 active
RaceStore ==
    {Row(1, "u1", RaceName, DefaultCategory, RaceGroup, 1, FALSE, RaceName, NoExecutionConfig),
     Row(2, "u1", RaceName, DefaultCategory, RaceGroup, 2, TRUE, RaceName, NoExecutionConfig)}

RaceUser == "u1"

\* the raced group has no active row after this step
NoteZero == sawZero' = (sawZero \/ ActiveInGroup(mappings', RaceGroup) = {})

Goto(c, pc) == calls' = [calls EXCEPT ![c].pc = pc]

BeginSave(c) ==
    /\ calls[c].pc = "idle"
    /\ calls' = [calls EXCEPT ![c] = Call("s_existing", "save", 0, NoRow, 0, "")]
    /\ UNCHANGED <<storeVars, sawZero, notStoreRace>>

BeginActivate(c, id) ==
    /\ calls[c].pc = "idle"
    /\ calls' = [calls EXCEPT ![c] = Call("a_deactivate", "activate", id, NoRow, 0, "")]
    /\ UNCHANGED <<storeVars, sawZero, notStoreRace>>

\* await ... .eq('is_active', true).maybeSingle()
SaveReadExisting(c) ==
    /\ calls[c].pc = "s_existing"
    /\ LET existing == SelectActiveByName(mappings, RaceUser, RaceName)
       IN calls' = [calls EXCEPT ![c].existing = existing,
                                 ![c].pc = IF existing = NoRow THEN "s_conflict"
                                           ELSE "s_version"]
    /\ UNCHANGED <<storeVars, sawZero, notStoreRace>>

\* if (!existingMapping) await ... .eq('name', name.trim()).limit(1)
SaveCheckConflict(c) ==
    /\ calls[c].pc = "s_conflict"
    /\ IF SelectNameConflict(mappings, RaceUser, RaceName)
          THEN calls' = [calls EXCEPT ![c].pc = "done", ![c].err = "conflict"]
          ELSE Goto(c, "s_version")
    /\ UNCHANGED <<storeVars, sawZero, notStoreRace>>

\* await supabase.rpc('get_next_version', ...)
SaveGetVersion(c) ==
    /\ calls[c].pc = "s_version"
    /\ calls' = [calls EXCEPT
           ![c].version = VersionFor(mappings, RaceUser, RaceName,
                              FinalCategory(DefaultCategory, calls[c].existing), 0),
           ![c].pc = IF calls[c].existing # NoRow THEN "s_deactivate" ELSE "s_insert"]
    /\ UNCHANGED <<storeVars, sawZero, notStoreRace>>

\* if (existingMapping) await ... update({is_active: false}) ...
SaveDeactivate(c) ==
    /\ calls[c].pc = "s_deactivate"
    /\ mappings' = DeactivateGroup(mappings, RaceUser,
                                   GroupIdFor(calls[c].existing, nextId))
    /\ Goto(c, "s_insert")
    /\ NoteZero
    /\ UNCHANGED <<nextId, last, notStoreRace>>

\* await ... insert({... is_active: true}).select().single()
SaveInsert(c) ==
    /\ calls[c].pc = "s_insert"
    /\ mappings' = InsertActive(mappings,
           Row(nextId, RaceUser, RaceName,
               FinalCategory(DefaultCategory, calls[c].existing),
               GroupIdFor(calls[c].existing, nextId), calls[c].version, TRUE,
               RaceName, NoExecutionConfig))
    /\ nextId' = nextId + 1
    /\ Goto(c, "done")
    /\ NoteZero
    /\ UNCHANGED <<last, notStoreRace>>

\* await deactivateQuery
ActDeactivate(c) ==
    /\ calls[c].pc = "a_deactivate"
    /\ mappings' = DeactivateByNameCategory(mappings, RaceUser, RaceName, DefaultCategory)
    /\ Goto(c, "a_activate")
    /\ NoteZero
    /\ UNCHANGED <<nextId, last, notStoreRace>>

\* await ... update({is_active: true}).eq('id', id)
ActActivate(c) ==
    /\ calls[c].pc = "a_activate"
    /\ mappings' = SetActiveById(mappings, RaceUser, calls[c].id, TRUE)
    /\ Goto(c, "done")
    /\ NoteZero
    /\ UNCHANGED <<nextId, last, notStoreRace>>

----------------------------------------------------------------------------
(* Import into the canvas: the expansion audit of handleImportMapping.
   A handle is a string, modelled as the sequence of its characters. *)

\* String.prototype.split with a one-character separator
RECURSIVE SplitFrom(_, _, _, _)
SplitFrom(s, sep, i, cur) ==
    IF i > Len(s) THEN <<cur>>
    ELSE IF s[i] = sep THEN <<cur>> \o SplitFrom(s, sep, i + 1, <<>>)
    ELSE SplitFrom(s, sep, i + 1, Append(cur, s[i]))

SplitOn(s, sep) == SplitFrom(s, sep, 1, <<>>)

\* Array.prototype.join with a one-character separator
RECURSIVE JoinWith(_, _)
JoinWith(parts, sep) ==
    IF Len(parts) = 0 THEN <<>>
    ELSE IF Len(parts) = 1 THEN parts[1]
    ELSE parts[1] \o <<sep>> \o JoinWith(Tail(parts), sep)

\* the position of the first "]" at or after i, 0 when there is none
RECURSIVE FirstClose(_, _)
FirstClose(s, i) ==
    IF i > Len(s) THEN 0
    ELSE IF s[i] = "]" THEN i
    ELSE FirstClose(s, i + 1)

\* replace(/\[.*?\]/g, ''), left as it is (the variant with no stripping)
RECURSIVE ReplaceNothing(_, _)
ReplaceNothing(s, i) ==
    IF i > Len(s) THEN <<>>
    ELSE <<s[i]>> \o ReplaceNothing(s, i + 1)

\* replace(/\[.*?\]/g, ''): from each "[" that has a later "]", drop through
\* the first such "]"; the scan goes on after the match
RECURSIVE ReplaceBracketed(_, _)
ReplaceBracketed(s, i) ==
    IF i > Len(s) THEN <<>>
    ELSE IF s[i] = "[" /\ FirstClose(s, i + 1) # 0
         THEN ReplaceBracketed(s, FirstClose(s, i + 1) + 1)
         ELSE <<s[i]>> \o ReplaceBracketed(s, i + 1)

\* the parent paths the loop over pathParts adds for one sourceHandle
ParentPaths(fieldPath) ==
    LET pathParts == SplitOn(fieldPath, ".")
        cleanPath(i) == ReplaceBracketed(JoinWith(SubSeq(pathParts, 1, i + 1), "."), 1)
    IN  {cleanPath(i) : i \in {j \in 0..(Len(pathParts) - 2) : cleanPath(j) # <<>>}}

\* the handles an imported edge may carry; <<>> is the absent or empty one
Handles ==
    { <<>>,
      <<"a">>,
      <<"a", ".", "b">>,
      <<"a", ".", "b", ".", "c">>,
      <<"a", "[", "2", "]", ".", "b">>,
      <<"a", "[", "2", "]", ".", "b", ".", "c">>,
      <<"a", ".", "b", "[", "0", "]", ".", "c">>,
      <<"[", "0", "]", ".", "b">>,
      <<"a", "[", "1", ".", "5", "]", ".", "b">>,
      <<"a", "[", "0", "]", "[", "1", "]", ".", "b">>,
      <<".", "b">>,
      <<"i", "t", "e", "m", "s", "[", "2", "]", ".",
        "a", "d", "d", "r", "e", "s", "s", ".", "c", "i", "t", "y">> }

\* the nodes importConfiguration returned: two sources, a transform, a target
ImportedNodes ==
    << [id |-> "s1", type |-> "source", hasExpanded |-> FALSE, initialExpandedFields |-> {}],
       [id |-> "s2", type |-> "source", hasExpanded |-> FALSE, initialExpandedFields |-> {}],
       [id |-> "t1", type |-> "transform", hasExpanded |-> FALSE, initialExpandedFields |-> {}],
       [id |-> "g1", type |-> "target", hasExpanded |-> FALSE, initialExpandedFields |-> {}] >>

ImportableEdges ==
    [source : {"s1", "t1"}, target : {"g1"}, sourceHandle : Handles]

\* sourceFieldsToExpand.has / get
HasEntry(map, nodeId) == nodeId \in DOMAIN map
EntryOf(map, nodeId) == IF HasEntry(map, nodeId) THEN map[nodeId] ELSE {}

NoExpandMap == [n \in {} |-> {}]

\* one iteration of importedEdges.forEach
AuditOne(map, edge) ==
    IF edge.sourceHandle = <<>> THEN map
    ELSE [n \in DOMAIN map \cup {edge.source} |->
            IF n = edge.source
            THEN EntryOf(map, n) \cup ParentPaths(edge.sourceHandle)
            ELSE map[n]]

\* importedNodes.map(...): only source nodes with an entry get the hint
EnhanceNode(map, node) ==
    IF node.type = "source" /\ HasEntry(map, node.id)
    THEN [node EXCEPT !.hasExpanded = TRUE, !.initialExpandedFields = map[node.id]]
    ELSE node

\* the connections the user may draw on the canvas
UserConnections ==
    { [source |-> "s2", target |-> "g1", sourceHandle |-> <<"x">>],
      [source |-> "s2", target |-> "g1", sourceHandle |-> <<"y">>] }

\* addEdge(newEdge, eds): a connection the canvas already holds is not added
\* a second time
AddEdge(newEdge, eds) ==
    IF \E i \in 1..Len(eds) : eds[i] = newEdge THEN eds ELSE Append(eds, newEdge)

\* a handler that skipped the clearing would leave the edges as they were
KeepEdges(eds) == eds

\* setEdges([])
ClearEdges(eds) == <<>>

Connects(callsMade) == {i \in 1..Len(callsMade) : callsMade[i] = "setEdges(addEdge)"}

\* the synchronous part of handleImportMapping has started and not ended
ImportRunning == impEdges # <<>> /\ impNodes = <<>>

ImportIdle ==
    /\ impEdges = <<>>
    /\ impExpand = NoExpandMap
    /\ impNodes = <<>>
    /\ impTimer = "none"
    /\ canvasEdges = <<>>
    /\ canvasCalls = <<>>

AuditEdge(edge) ==
    /\ impNodes = <<>>
    /\ Len(impEdges) < MaxImportEdges
    /\ impEdges' = Append(impEdges, edge)
    /\ impExpand' = AuditOne(impExpand, edge)
    /\ UNCHANGED <<impNodes, impTimer, canvasEdges, canvasCalls, notImport>>

\* the rest of the handler, once every edge has been gone through:
\* enhancedNodes, setNodes, setEdges([]) and the 300 ms timeout
ApplyExpansion ==
    /\ impNodes = <<>>
    /\ impNodes' = [i \in 1..Len(ImportedNodes) |-> EnhanceNode(impExpand, ImportedNodes[i])]
    /\ canvasEdges' = ClearEdges(canvasEdges)
    /\ impTimer' = "pending"
    /\ canvasCalls' = canvasCalls \o <<"setNodes(enhancedNodes)", "setEdges([])">>
    /\ UNCHANGED <<impEdges, impExpand, notImport>>

\* the callback of the timeout: setEdges(importedEdges)
TimerFires ==
    /\ impTimer = "pending"
    /\ impTimer' = "fired"
    /\ canvasEdges' = impEdges
    /\ canvasCalls' = Append(canvasCalls, "setEdges(importedEdges)")
    /\ UNCHANGED <<impEdges, impExpand, impNodes, notImport>>

\* onConnect: the user draws a connection, at any time no handler is running
OnConnect(params) ==
    /\ ~ImportRunning
    /\ Cardinality(Connects(canvasCalls)) < MaxConnects
    /\ canvasEdges' = AddEdge(params, canvasEdges)
    /\ canvasCalls' = Append(canvasCalls, "setEdges(addEdge)")
    /\ UNCHANGED <<impEdges, impExpand, impNodes, impTimer, notImport>>

----------------------------------------------------------------------------
(* Pipeline: handleImportMapping, handleNewMapping and the import timeout *)

\* the files the user imports, and importedEdges of each: the edges carry
\* the name of the configuration they were read from
ConfigNames == {"A", "B", "C"}

ImportedEdgesOf(name) ==
    IF name = "A"
    THEN <<[id |-> "e1", config |-> "A"], [id |-> "e2", config |-> "A"]>>
    ELSE <<[id |-> "e1", config |-> name]>>

\* the canvas as the component mounts it: initialNodes, initialEdges
ResetIdle ==
    /\ resetLoaded = "initial"
    /\ resetEdges = <<>>
    /\ resetTimers = <<>>
    /\ resetImports = 0

\* reader.onload of handleImportMapping: setNodes(enhancedNodes),
\* setEdges([]) and setTimeout(() => setEdges(importedEdges), 300)
HandleImportMapping(name) ==
    /\ resetImports < MaxImports
    /\ resetImports' = resetImports + 1
    /\ resetLoaded' = name
    /\ resetEdges' = <<>>
    /\ resetTimers' = Append(resetTimers, ImportedEdgesOf(name))
    /\ UNCHANGED notReset

\* handleNewMapping: setNodes(initialNodes), setEdges(initialEdges); no
\* timeout is cleared
HandleNewMapping ==
    /\ resetLoaded' = "new"
    /\ resetEdges' = <<>>
    /\ UNCHANGED <<resetTimers, resetImports, notReset>>

\* the callback of the oldest timeout: setEdges(importedEdges)
ImportTimeout ==
    /\ resetTimers # <<>>
    /\ resetEdges' = Head(resetTimers)
    /\ resetTimers' = Tail(resetTimers)
    /\ UNCHANGED <<resetLoaded, resetImports, notReset>>
----------------------------------------------------------------------------
(* The canvas graph, its UI export and the import of the exported file.
   A missing property and an empty string are both falsy to the exporter,
   yet only the second survives the JSON file: Undef stands for the first.
   A missing array reads as [] everywhere, so <<>> stands for both, and a
   missing number as 0. *)

Undef == "undefined"

Falsy(v) == v \in {Undef, ""}

\* a || b on strings
Or(a, b) == IF Falsy(a) THEN b ELSE a

\* SchemaField
Field(id, name, type, groupBy, children) ==
    [id |-> id, name |-> name, type |-> type, groupBy |-> groupBy, children |-> children]

NameField == Field("f1", "name", "string", Undef, <<>>)
ItemsField ==
    Field("f2", "items", "array", "sku", <<Field("f3", "sku", "string", Undef, <<>>)>>)

\* an array property: missing, or a list, which may be empty
NoList == [present |-> FALSE, items |-> <<>>]
List(items) == [present |-> TRUE, items |-> items]

\* a || b on array properties: a list is truthy even when empty, only a
\* missing one falls through
OrList(a, b) == IF a.present THEN a ELSE b

\* node.data.config of a transform: none, the node's own, the object the
\* exporter wrote, or a copy of the whole data object; rules and
\* parameterRules are config.rules and config.parameters.rules
Config(shape, operation, stringOperation, substringStart, substringEnd) ==
    [shape |-> shape, operation |-> operation, stringOperation |-> stringOperation,
     substringStart |-> substringStart, substringEnd |-> substringEnd,
     rules |-> NoList, parameterRules |-> NoList]

AbsentConfig == Config("absent", Undef, Undef, 0, 0)
EmptyConfig == Config("empty", Undef, Undef, 0, 0)
SubstringConfig == Config("own", Undef, "substring", 0, 3)
ExportedConfig(operation) == Config("exported", operation, Undef, 0, 0)
DataAsConfig == Config("data", Undef, Undef, 0, 0)

\* node.data with every property this code reads
BlankData ==
    [label |-> Undef, fields |-> <<>>, data |-> <<>>, fieldValues |-> Undef,
     transformType |-> Undef, operator |-> Undef, compareValue |-> Undef,
     thenValue |-> Undef, elseValue |-> Undef, values |-> <<>>,
     delimiter |-> Undef, splitIndex |-> 0, rules |-> NoList,
     defaultValue |-> Undef, outputType |-> Undef, inputValues |-> Undef,
     mappings |-> <<>>, config |-> AbsentConfig]

NodeTypes ==
    {"source", "target", "conversionMapping", "ifThen", "staticValue",
     "splitterTransform", "coalesceTransform", "transform"}

CoalesceRule == [id |-> "r1", priority |-> 1, outputValue |-> "o"]

\* the data a node of each type may hold once the user has edited it
NodeData(type) ==
    CASE type = "source" ->
           {[BlankData EXCEPT !.label = "Orders", !.fields = <<NameField, ItemsField>>,
                              !.data = <<"row">>]}
      [] type = "target" ->
           {[BlankData EXCEPT !.label = "Out", !.fields = <<NameField, ItemsField>>,
                              !.fieldValues = "values"]}
      [] type = "conversionMapping" ->
           {[BlankData EXCEPT !.label = "Codes",
                              !.mappings = <<[from |-> "A", to |-> "1"]>>]}
      [] type = "ifThen" ->
           {[BlankData EXCEPT !.label = "If"],
            [BlankData EXCEPT !.operator = ">", !.compareValue = "5",
                              !.thenValue = "hi", !.elseValue = "lo"]}
      [] type = "staticValue" ->
           {[BlankData EXCEPT !.values = <<[id |-> "v1", value |-> "k"]>>]}
      [] type = "splitterTransform" ->
           {[BlankData EXCEPT !.delimiter = ";", !.splitIndex = 1]}
      [] type = "coalesceTransform" ->
           {[BlankData EXCEPT !.transformType = "coalesce", !.rules = List(<<CoalesceRule>>),
                              !.defaultValue = "d"]}
      [] type = "transform" ->
           {[BlankData EXCEPT !.label = "Cut", !.transformType = "String Transform",
                              !.config = SubstringConfig],
            [BlankData EXCEPT !.transformType = "coalesce", !.rules = List(<<CoalesceRule>>)]}

\* `${type}_${Date.now()}`: one fresh id per node, and the drop position
NodeIdOf(i) == <<"n1", "n2", "n3", "n4", "n5", "n6", "n7", "n8", "n9", "n10", "n11", "n12">>[i]
PositionOf(i) == [x |-> 100 * i, y |-> 50]

EdgeHandles ==
    {[sourceHandle |-> Undef, targetHandle |-> Undef],
     [sourceHandle |-> "f1", targetHandle |-> "f1"],
     [sourceHandle |-> "f1", targetHandle |-> "f3"],
     [sourceHandle |-> "v1", targetHandle |-> "f2"]}

GraphNode(id, type, position, data) ==
    [id |-> id, type |-> type, position |-> position, data |-> data]

GraphEdge(id, source, target, sourceHandle, targetHandle) ==
    [id |-> id, source |-> source, target |-> target,
     sourceHandle |-> sourceHandle, targetHandle |-> targetHandle]

\* nodes.filter(...) keeps the order of the nodes
Filter(seq, Keep(_)) == SelectSeq(seq, Keep)
MapSeq(seq, F(_)) == [i \in 1..Len(seq) |-> F(seq[i])]

GraphIdle ==
    /\ gNodes = <<>>
    /\ gEdges = <<>>
    /\ gConfig = <<>>
    /\ gImported = <<>>
    /\ gExecution = <<>>

\* the ids the canvas knows: those of its nodes and those its edges name
IdsInUse(nodes, edges) ==
    {nodes[i].id : i \in 1..Len(nodes)}
    \cup {edges[i].source : i \in 1..Len(edges)}
    \cup {edges[i].target : i \in 1..Len(edges)}

\* Date.now() gives an id the canvas has not seen
FreshIndex(nodes, edges) ==
    CHOOSE i \in 1..12 :
        /\ NodeIdOf(i) \notin IdsInUse(nodes, edges)
        /\ \A j \in 1..(i - 1) : NodeIdOf(j) \in IdsInUse(nodes, edges)

\* a node dropped on the canvas and edited
AddNode(type, data) ==
    /\ gConfig = <<>>
    /\ gNodes' = Append(gNodes,
                        GraphNode(NodeIdOf(FreshIndex(gNodes, gEdges)), type,
                                  PositionOf(FreshIndex(gNodes, gEdges)), data))
    /\ UNCHANGED <<gEdges, gConfig, gImported, gExecution, notGraph>>

\* onConnect: addEdge keeps one edge per connection
Connect(s, t, h) ==
    /\ gConfig = <<>>
    /\ s \in 1..Len(gNodes) /\ t \in 1..Len(gNodes)
    /\ \A i \in 1..Len(gEdges) :
          ~ /\ gEdges[i].source = gNodes[s].id
            /\ gEdges[i].target = gNodes[t].id
            /\ gEdges[i].sourceHandle = h.sourceHandle
    /\ gEdges' = Append(gEdges,
                        GraphEdge(Len(gEdges) + 1, gNodes[s].id, gNodes[t].id,
                                  h.sourceHandle, h.targetHandle))
    /\ UNCHANGED <<gNodes, gConfig, gImported, gExecution, notGraph>>

\* handleNodesChange with a change of type remove: onNodesChange drops the
\* node from the nodes state, and the handler does nothing to the edges
RemoveNode(i) ==
    /\ gConfig = <<>>
    /\ i \in 1..Len(gNodes)
    /\ gNodes' = SubSeq(gNodes, 1, i - 1) \o SubSeq(gNodes, i + 1, Len(gNodes))
    /\ UNCHANGED <<gEdges, gConfig, gImported, gExecution, notGraph>>

(* exportUIMappingConfiguration *)

ExportSource(node) ==
    [id |-> node.id, type |-> "source",
     label |-> Or(node.data.label, "Source Node"),
     position |-> node.position,
     fields |-> node.data.fields,
     sampleData |-> node.data.data]

ExportTarget(node) ==
    [id |-> node.id, type |-> "target",
     label |-> Or(node.data.label, "Target Node"),
     position |-> node.position,
     fields |-> node.data.fields,
     outputData |-> node.data.data,
     fieldValues |-> IF Falsy(node.data.fieldValues) THEN Undef ELSE node.data.fieldValues]

\* a TransformNodeConfig: config is the config object, parameters its
\* parameters, configData the data object it is when the generic branch
\* falls back to node.data
TransformConfig(node, config, parameters, configData, nodeData) ==
    [id |-> node.id, type |-> node.type,
     label |-> Or(node.data.label, "Transform Node"),
     position |-> node.position,
     transformType |-> Or(node.data.transformType, Or(node.type, "unknown")),
     config |-> config, parameters |-> parameters,
     configData |-> configData, nodeData |-> nodeData]

IsCoalesce(node) ==
    \/ node.type = "coalesceTransform"
    \/ node.type = "transform" /\ node.data.transformType = "coalesce"

ExportTransform(node) ==
    LET d == node.data
        ifThen == [BlankData EXCEPT !.operator = Or(d.operator, "="),
                                    !.compareValue = Or(d.compareValue, ""),
                                    !.thenValue = Or(d.thenValue, ""),
                                    !.elseValue = Or(d.elseValue, "")]
        static == [BlankData EXCEPT !.values = d.values]
        additionalConfig == IF d.config.shape # "absent" THEN d.config ELSE EmptyConfig
        split == [BlankData EXCEPT !.delimiter = Or(d.delimiter, ","),
                                   !.splitIndex = d.splitIndex,
                                   !.config = additionalConfig]
        coalesce == [BlankData EXCEPT !.rules = OrList(d.rules, List(<<>>)),
                                      !.defaultValue = Or(d.defaultValue, ""),
                                      !.outputType = Or(d.outputType, "value")]
    IN  CASE node.type = "ifThen" ->
               TransformConfig(node, ExportedConfig("conditional"), ifThen, BlankData, ifThen)
          [] node.type = "staticValue" ->
               TransformConfig(node, ExportedConfig("static"), static, BlankData, static)
          [] node.type = "splitterTransform" ->
               TransformConfig(node, ExportedConfig("split"), split, BlankData, split)
          [] node.type \notin {"ifThen", "staticValue", "splitterTransform"} /\ IsCoalesce(node) ->
               TransformConfig(node, ExportedConfig("coalesce"), coalesce, BlankData,
                               [coalesce EXCEPT !.inputValues = Or(d.inputValues, "{}")])
          [] OTHER ->
               IF d.config.shape # "absent"
               THEN TransformConfig(node, d.config, BlankData, BlankData, d)
               ELSE TransformConfig(node, DataAsConfig, BlankData, d, d)

ExportMapping(node) ==
    [id |-> node.id, type |-> "mapping",
     label |-> Or(node.data.label, "Mapping Node"),
     position |-> node.position,
     mappings |-> node.data.mappings]

IsBasicNode(node) == node.type \in {"source", "target", "conversionMapping"}

ConnectionType(nodes, edge) ==
    LET found == {i \in 1..Len(nodes) : nodes[i].id = edge.source}
    IN  IF found = {} THEN "direct"
        ELSE LET sourceNode == nodes[CHOOSE i \in found : \A j \in found : i <= j]
             IN  IF ~IsBasicNode(sourceNode) THEN "transform"
                 ELSE IF sourceNode.type = "conversionMapping" THEN "mapping"
                 ELSE "direct"

ExportConnection(nodes, edge) ==
    [id |-> edge.id, sourceNodeId |-> edge.source, targetNodeId |-> edge.target,
     sourceHandle |-> Or(edge.sourceHandle, ""),
     targetHandle |-> Or(edge.targetHandle, ""),
     type |-> ConnectionType(nodes, edge)]

IsSource(node) == node.type = "source"
IsTarget(node) == node.type = "target"
IsTransformLike(node) == ~IsBasicNode(node)
IsConversionMapping(node) == node.type = "conversionMapping"

ExportUIMappingConfiguration(nodes, edges, name) ==
    LET connection(edge) == ExportConnection(nodes, edge)
    IN  [name |-> name, version |-> "1.0.0",
         sources |-> MapSeq(Filter(nodes, IsSource), ExportSource),
         targets |-> MapSeq(Filter(nodes, IsTarget), ExportTarget),
         transforms |-> MapSeq(Filter(nodes, IsTransformLike), ExportTransform),
         mappings |-> MapSeq(Filter(nodes, IsConversionMapping), ExportMapping),
         connections |-> MapSeq(edges, connection)]

(* exportExecutionMapping *)

\* the value of from in a static mapping
Null == "null"

\* typeof v === 'string' ? v : d
StringOr(v, d) == IF v = Undef THEN d ELSE v

\* nodes.find(n => n.id === id), as a list of at most one node
FindNode(nodes, id) ==
    LET hit(n) == n.id = id
        found == SelectSeq(nodes, hit)
    IN  IF found = <<>> THEN <<>> ELSE <<Head(found)>>

\* edges.find(e => e.target === nodeId), as a list of at most one edge
FindEdgeInto(edges, nodeId) ==
    LET hit(e) == e.target = nodeId
        found == SelectSeq(edges, hit)
    IN  IF found = <<>> THEN <<>> ELSE <<Head(found)>>

\* fields.find(f => f.id === handle)?.name: the tree is not descended
FieldNameOf(fields, handle) ==
    LET hit(f) == f.id = handle
        found == SelectSeq(fields, hit)
    IN  IF found = <<>> THEN Undef ELSE Head(found).name

\* values.find(v => v.id === handle)?.value
StaticValueOf(values, handle) ==
    LET hit(v) == v.id = handle
        found == SelectSeq(values, hit)
    IN  IF found = <<>> THEN Undef ELSE Head(found).value

\* the name of the field an edge leaves, on the node it leaves, '' without
\* edge, node or field
InputFieldName(nodes, inputEdge) ==
    IF inputEdge = <<>> THEN ""
    ELSE LET inputNode == FindNode(nodes, inputEdge[1].source)
         IN  IF inputNode = <<>> THEN ""
             ELSE Or(FieldNameOf(inputNode[1].data.fields, inputEdge[1].sourceHandle), "")

DirectMapping(sourceNode, edge, targetField) ==
    [from |-> Or(FieldNameOf(sourceNode.data.fields, edge.sourceHandle),
                 Or(edge.sourceHandle, "")),
     to |-> targetField.name,
     type |-> "direct"]

\* a static mapping whose from is the empty string
StaticMappingFromEmpty(sourceNode, edge, targetField) ==
    [from |-> "",
     to |-> targetField.name,
     type |-> "static",
     value |-> Or(StaticValueOf(sourceNode.data.values, edge.sourceHandle), "")]

StaticMapping(sourceNode, edge, targetField) ==
    [from |-> Null,
     to |-> targetField.name,
     type |-> "static",
     value |-> Or(StaticValueOf(sourceNode.data.values, edge.sourceHandle), "")]

IfThenMapping(nodes, edges, sourceNode, targetField) ==
    [from |-> InputFieldName(nodes, FindEdgeInto(edges, sourceNode.id)),
     to |-> targetField.name,
     type |-> "ifThen",
     if |-> [operator |-> StringOr(sourceNode.data.operator, "="),
             value |-> StringOr(sourceNode.data.compareValue, "")],
     then |-> StringOr(sourceNode.data.thenValue, ""),
     else |-> StringOr(sourceNode.data.elseValue, "")]

\* mapObject[mapping.from] = mapping.to, a later entry replacing an earlier one
MapObject(conversionMappings) ==
    [k \in {conversionMappings[i].from : i \in 1..Len(conversionMappings)} |->
        LET at == {i \in 1..Len(conversionMappings) : conversionMappings[i].from = k}
        IN  conversionMappings[CHOOSE i \in at : \A j \in at : j <= i].to]

\* transformInfo of a transform or splitter node fed by a source node
TransformInfo(inputNode) ==
    LET transformData == inputNode.data
        config == transformData.config
    IN  IF inputNode.type = "transform"
        THEN IF config.stringOperation = "substring"
             THEN [type |-> "substring",
                   start |-> config.substringStart,
                   end |-> config.substringEnd]
             ELSE [type |-> Or(transformData.transformType, "transform"),
                   operation |-> Or(config.stringOperation, Or(config.operation, "unknown")),
                   parameters |-> config]
        ELSE [type |-> "split",
              delimiter |-> Or(transformData.delimiter, ","),
              index |-> transformData.splitIndex]

\* a conversion input read on the node's own input edge only
ConversionInputOneHop(nodes, edges, sourceNode) ==
    LET conversionInputEdge == FindEdgeInto(edges, sourceNode.id)
    IN  [originalSourceField |-> InputFieldName(nodes, conversionInputEdge),
         transformInfo |-> <<>>]

\* originalSourceField and transformInfo (a list of at most one) of a
\* conversion mapping node
ConversionInput(nodes, edges, sourceNode) ==
    LET conversionInputEdge == FindEdgeInto(edges, sourceNode.id)
        inputNode == IF conversionInputEdge = <<>> THEN <<>>
                     ELSE FindNode(nodes, conversionInputEdge[1].source)
        none == [originalSourceField |-> "", transformInfo |-> <<>>]
    IN  IF inputNode = <<>> THEN none
        ELSE IF inputNode[1].type = "source"
        THEN [none EXCEPT !.originalSourceField = InputFieldName(nodes, conversionInputEdge)]
        ELSE IF inputNode[1].type \in {"transform", "splitterTransform"}
        THEN LET transformInputEdge == FindEdgeInto(edges, inputNode[1].id)
                 transformSourceNode ==
                     IF transformInputEdge = <<>> THEN <<>>
                     ELSE FindNode(nodes, transformInputEdge[1].source)
             IN  IF transformSourceNode # <<>> /\ transformSourceNode[1].type = "source"
                 THEN [originalSourceField |-> InputFieldName(nodes, transformInputEdge),
                       transformInfo |-> <<TransformInfo(inputNode[1])>>]
                 ELSE none
        ELSE none

ConversionMapping(nodes, edges, sourceNode, targetField) ==
    LET input == ConversionInput(nodes, edges, sourceNode)
        mapping == [from |-> input.originalSourceField,
                    to |-> targetField.name,
                    type |-> "map",
                    map |-> MapObject(sourceNode.data.mappings)]
    IN  IF input.transformInfo = <<>> THEN mapping
        ELSE [from |-> mapping.from, to |-> mapping.to, type |-> mapping.type,
              map |-> mapping.map, transform |-> input.transformInfo[1]]

\* a walk that goes on through transform nodes until it meets another node,
\* for at most MaxWalk lookups
RECURSIVE ThroughTransforms(_, _, _, _)
ThroughTransforms(nodes, edges, id, left) ==
    LET inputEdge == FindEdgeInto(edges, id)
        inputNode == IF inputEdge = <<>> THEN <<>> ELSE FindNode(nodes, inputEdge[1].source)
    IN  IF inputNode = <<>> \/ left = 0 THEN <<>>
        ELSE <<inputNode[1].id>>
             \o (IF inputNode[1].type \in {"transform", "splitterTransform"}
                 THEN ThroughTransforms(nodes, edges, inputNode[1].id, left - 1)
                 ELSE <<>>)

BackwardWalkThroughTransforms(nodes, edges, edge) ==
    LET sourceNode == FindNode(nodes, edge.source)
    IN  IF sourceNode = <<>> THEN <<>>
        ELSE <<sourceNode[1].id>> \o ThroughTransforms(nodes, edges, sourceNode[1].id, MaxWalk)

\* the nodes that the nodes.find calls made for one edge into a target
\* field return, in the order of the calls
BackwardWalk(nodes, edges, edge) ==
    LET sourceNode == FindNode(nodes, edge.source)
        inputEdge == FindEdgeInto(edges, sourceNode[1].id)
        inputNode == IF inputEdge = <<>> THEN <<>> ELSE FindNode(nodes, inputEdge[1].source)
        transformInputEdge == FindEdgeInto(edges, inputNode[1].id)
        transformSourceNode ==
            IF transformInputEdge = <<>> THEN <<>>
            ELSE FindNode(nodes, transformInputEdge[1].source)
    IN  IF sourceNode = <<>> THEN <<>>
        ELSE IF sourceNode[1].type = "ifThen"
        THEN <<sourceNode[1].id>>
             \o (IF inputNode = <<>> THEN <<>> ELSE <<inputNode[1].id>>)
        ELSE IF sourceNode[1].type = "conversionMapping"
        THEN <<sourceNode[1].id>>
             \o (IF inputNode = <<>> THEN <<>>
                 ELSE <<inputNode[1].id>>
                      \o (IF /\ inputNode[1].type \in {"transform", "splitterTransform"}
                             /\ transformSourceNode # <<>>
                          THEN <<transformSourceNode[1].id>> ELSE <<>>))
        ELSE <<sourceNode[1].id>>

\* an origin of another type exported as a direct mapping without a field
FallbackMapped(edge, targetField) ==
    <<[from |-> Or(edge.sourceHandle, ""), to |-> targetField.name, type |-> "direct"]>>

\* the fallback for unknown node types: return, nothing pushed
Fallback(edge, targetField) == <<>>

\* the body of incomingEdges.forEach: the mappings pushed for one edge
EdgeMappings(nodes, edges, edge, targetField) ==
    LET sourceNode == FindNode(nodes, edge.source)
    IN  IF sourceNode = <<>> THEN <<>>
        ELSE CASE sourceNode[1].type = "source" ->
                    <<DirectMapping(sourceNode[1], edge, targetField)>>
               [] sourceNode[1].type = "staticValue" ->
                    <<StaticMapping(sourceNode[1], edge, targetField)>>
               [] sourceNode[1].type = "ifThen" ->
                    <<IfThenMapping(nodes, edges, sourceNode[1], targetField)>>
               [] sourceNode[1].type = "conversionMapping" ->
                    <<ConversionMapping(nodes, edges, sourceNode[1], targetField)>>
               [] OTHER -> Fallback(edge, targetField)

RECURSIVE Flatten(_)
Flatten(lists) == IF lists = <<>> THEN <<>> ELSE Head(lists) \o Flatten(Tail(lists))

\* the body of targetFields.forEach
FieldMappings(nodes, edges, targetNode, targetField) ==
    LET incoming(edge) == edge.target = targetNode.id /\ edge.targetHandle = targetField.id
        incomingEdges == SelectSeq(edges, incoming)
    IN  Flatten([i \in 1..Len(incomingEdges) |->
                    EdgeMappings(nodes, edges, incomingEdges[i], targetField)])

\* the body of targetNodes.forEach: the fields of data.fields, one by one
TargetNodeMappings(nodes, edges, targetNode) ==
    LET targetFields == targetNode.data.fields
    IN  Flatten([i \in 1..Len(targetFields) |->
                    FieldMappings(nodes, edges, targetNode, targetFields[i])])

\* the mappings collected edge by edge, in the order of the edges list
ExportInEdgeOrder(nodes, edges) ==
    LET targetNodes == SelectSeq(nodes, IsTarget)
        ofEdge(edge) ==
            Flatten([i \in 1..Len(targetNodes) |->
                Flatten([k \in 1..Len(targetNodes[i].data.fields) |->
                    IF /\ edge.target = targetNodes[i].id
                       /\ edge.targetHandle = targetNodes[i].data.fields[k].id
                    THEN EdgeMappings(nodes, edges, edge, targetNodes[i].data.fields[k])
                    ELSE <<>>])])
    IN  Flatten([j \in 1..Len(edges) |-> ofEdge(edges[j])])

\* exportExecutionMapping: config.mappings
ExportExecutionMapping(nodes, edges) ==
    LET targetNodes == SelectSeq(nodes, IsTarget)
    IN  Flatten([i \in 1..Len(targetNodes) |->
                    TargetNodeMappings(nodes, edges, targetNodes[i])])

(* the importer *)

RECURSIVE ReconstructSchemaFields(_, _)
ReconstructSchemaFields(fields, arrayConfigs) ==
    [i \in 1..Len(fields) |->
        LET field == fields[i]
            found == {j \in 1..Len(arrayConfigs) : arrayConfigs[j].target = field.name}
            arrayConfig == arrayConfigs[CHOOSE j \in found : \A k \in found : j <= k]
            groupBy == IF field.type = "array" /\ found # {}
                       THEN Or(arrayConfig.groupBy, Undef)
                       ELSE field.groupBy
        IN  Field(field.id, field.name, field.type, groupBy,
                  ReconstructSchemaFields(field.children, arrayConfigs))]

ImportTargetNode(config, arrayConfigs) ==
    GraphNode(config.id, "target", config.position,
              [BlankData EXCEPT !.label = config.label,
                                !.fields = ReconstructSchemaFields(config.fields, arrayConfigs),
                                !.data = config.outputData,
                                !.fieldValues = "{}"])

ImportSourceNode(config) ==
    GraphNode(config.id, "source", config.position,
              [BlankData EXCEPT !.label = config.label,
                                !.fields = config.fields,
                                !.data = config.sampleData])

\* config.nodeData?.rules || config.config?.parameters?.rules ||
\* config.config?.rules || []
ImportedRules(config) ==
    OrList(config.nodeData.rules,
           OrList(config.parameters.rules,
                  OrList(config.configData.rules, List(<<>>))))

ImportTransformNode(config) ==
    LET nd == config.nodeData
        rules == ImportedRules(config)
        defaultValue == Or(nd.defaultValue,
                           Or(config.parameters.defaultValue,
                              Or(config.configData.defaultValue, "")))
    IN  IF config.transformType = "coalesce"
        THEN GraphNode(config.id, "transform", config.position,
                       [BlankData EXCEPT !.label = config.label,
                                         !.transformType = "coalesce",
                                         !.rules = rules,
                                         !.defaultValue = defaultValue,
                                         !.outputType = Or(nd.outputType, "value"),
                                         !.inputValues = Or(nd.inputValues, "{}"),
                                         !.config = [Config("rebuilt", "coalesce", Undef, 0, 0)
                                                      EXCEPT !.rules = rules,
                                                             !.parameterRules = rules]])
        ELSE GraphNode(config.id, config.type, config.position,
                       [nd EXCEPT !.label = IF nd.label # Undef THEN nd.label ELSE config.label,
                                  !.transformType = IF nd.transformType # Undef
                                                    THEN nd.transformType
                                                    ELSE config.transformType,
                                  !.config = IF nd.config.shape # "absent"
                                             THEN nd.config
                                             ELSE config.config])

ImportMappingNode(config) ==
    GraphNode(config.id, "mapping", config.position,
              [BlankData EXCEPT !.label = config.label, !.mappings = config.mappings])

ImportConnection(connection) ==
    GraphEdge(connection.id, connection.sourceNodeId, connection.targetNodeId,
              connection.sourceHandle, connection.targetHandle)

\* importConfiguration: a node per entry of each category, built by the
\* importer of the category, then the connections replayed as edges
ImportConfiguration(config, arrayConfigs) ==
    LET target(c) == ImportTargetNode(c, arrayConfigs)
    IN  [nodes |-> MapSeq(config.sources, ImportSourceNode)
                   \o MapSeq(config.targets, target)
                   \o MapSeq(config.transforms, ImportTransformNode)
                   \o MapSeq(config.mappings, ImportMappingNode),
         edges |-> MapSeq(config.connections, ImportConnection)]

\* handleImportMapping of a file that this export did not write
ImportFile(file) ==
    /\ gConfig = <<>>
    /\ gImported = <<>>
    /\ gNodes = <<>>
    /\ gConfig' = <<file>>
    /\ gImported' = <<ImportConfiguration(file, <<>>)>>
    /\ UNCHANGED <<gNodes, gEdges, gExecution, notGraph>>

\* handleExportMapping: downloadBothMappingFiles writes the configuration of
\* the canvas to one file and its execution mappings to another
ExportUI ==
    /\ gConfig = <<>>
    /\ gNodes # <<>>
    /\ gConfig' = <<ExportUIMappingConfiguration(gNodes, gEdges, "Untitled Mapping")>>
    /\ gExecution' = ExportExecutionMapping(gNodes, gEdges)
    /\ UNCHANGED <<gNodes, gEdges, gImported, notGraph>>

\* handleImportMapping reads the file back; the file names no array configuration
ImportUI ==
    /\ gConfig # <<>>
    /\ gImported = <<>>
    /\ gImported' = <<ImportConfiguration(gConfig[1], <<>>)>>
    /\ UNCHANGED <<gNodes, gEdges, gConfig, gExecution, notGraph>>

----------------------------------------------------------------------------
(* TargetNode: the schema editor *)

\* `field-${Date.now()}`: an id no field of the list has
FieldIdOf(i) == <<"f1", "f2", "f3", "f4", "f5", "f6">>[i]

RECURSIVE FieldIds(_)
FieldIds(fieldsArray) ==
    UNION {{fieldsArray[i].id} \cup FieldIds(fieldsArray[i].children) :
              i \in 1..Len(fieldsArray)}

RECURSIVE FieldsIn(_)
FieldsIn(fieldsArray) ==
    UNION {{fieldsArray[i]} \cup FieldsIn(fieldsArray[i].children) :
              i \in 1..Len(fieldsArray)}

FreshFieldId(fieldsArray) ==
    FieldIdOf(CHOOSE i \in 1..6 :
                 /\ FieldIdOf(i) \notin FieldIds(fieldsArray)
                 /\ \A j \in 1..(i - 1) : FieldIdOf(j) \in FieldIds(fieldsArray))

\* the names and types the editor's inputs offer
FieldNames == {"New Field", "sku"}
FieldTypes == {"string", "object", "array"}

HasChildren(type) == type \in {"object", "array"}

SchemaIdle == schemaFields = <<>>

\* addField(parentId?): a root field, or a child of the root field parentId
AddField(parentId) ==
    LET newField == Field(FreshFieldId(schemaFields), "New Field", "string", Undef, <<>>)
    IN  /\ schemaFields' =
              IF parentId # Undef
              THEN [i \in 1..Len(schemaFields) |->
                       IF schemaFields[i].id = parentId
                       THEN [schemaFields[i] EXCEPT !.children = Append(@, newField)]
                       ELSE schemaFields[i]]
              ELSE Append(schemaFields, newField)
        /\ UNCHANGED notSchema

\* { ...field, ...updates } and the two type rules
UpdatedField(field, updates) ==
    LET merged == [field EXCEPT !.name = IF updates.key = "name" THEN updates.value ELSE @,
                                !.type = IF updates.key = "type" THEN updates.value ELSE @,
                                !.groupBy = IF updates.key = "groupBy" THEN updates.value ELSE @]
    IN  IF updates.key = "type" /\ ~HasChildren(updates.value)
        THEN [merged EXCEPT !.children = <<>>, !.groupBy = Undef]
        ELSE merged

RECURSIVE UpdateFieldRecursive(_, _, _)
UpdateFieldRecursive(fieldsArray, fieldId, updates) ==
    [i \in 1..Len(fieldsArray) |->
        IF fieldsArray[i].id = fieldId
        THEN UpdatedField(fieldsArray[i], updates)
        ELSE [fieldsArray[i] EXCEPT
                 !.children = UpdateFieldRecursive(@, fieldId, updates)]]

\* updateField(fieldId, updates)
UpdateField(fieldId, updates) ==
    /\ schemaFields' = UpdateFieldRecursive(schemaFields, fieldId, updates)
    /\ UNCHANGED notSchema

RECURSIVE DeleteFieldRecursive(_, _)
DeleteFieldRecursive(fieldsArray, fieldId) ==
    LET keep(field) == field.id # fieldId
        kept == SelectSeq(fieldsArray, keep)
    IN  [i \in 1..Len(kept) |->
            [kept[i] EXCEPT !.children = DeleteFieldRecursive(@, fieldId)]]

\* deleteField(fieldId)
DeleteField(fieldId) ==
    /\ schemaFields' = DeleteFieldRecursive(schemaFields, fieldId)
    /\ UNCHANGED notSchema

\* the updates the editor's controls of a field send: any name, any type,
\* and for an array field no grouping or the name of one of its children
UpdatesOffered(field) ==
    {[key |-> "name", value |-> n] : n \in FieldNames}
    \cup {[key |-> "type", value |-> t] : t \in FieldTypes}
    \cup (IF field.type = "array"
          THEN {[key |-> "groupBy", value |-> g] :
                   g \in {Undef} \cup {field.children[k].name : k \in 1..Len(field.children)}}
          ELSE {})
----------------------------------------------------------------------------
(* TemplateMapperService.generateMappingFromFiles *)

MAX_SAMPLES == 20

\* the records loadAndFlatten reads from a file of n rows, nothing redacted yet
FileRecords(n) == [i \in 1..n |-> [row |-> i, redacted |-> FALSE]]

\* redactSample: the record with its sensitive values replaced
RedactSample(record) == [record EXCEPT !.redacted = TRUE]

\* the samples handed on as they are
RedactNothing(data) == data

\* redactAll: data.map(redactSample)
RedactAll(data) == [i \in 1..Len(data) |-> RedactSample(data[i])]

\* array.slice(0, end)
SliceTo(list, end) == SubSeq(list, 1, IF Len(list) < end THEN Len(list) ELSE end)

NoBody == [sourceData |-> <<>>, targetData |-> <<>>]

NoGenerate == [count |-> 0, source |-> 0, target |-> 0, session |-> FALSE, outcome |-> "none"]

GenerateIdle ==
    /\ genRequest = NoGenerate
    /\ genCalls = 0
    /\ genSent = NoBody

\* generateMappingFromFiles(sourceFile, targetFile) with files of the given
\* numbers of rows; session: getSession returned one; failed: invoke
\* returned an error
GenerateMappingFromFiles(sourceRows, targetRows, session, failed) ==
    LET fullSource == FileRecords(sourceRows)
        fullTarget == FileRecords(targetRows)
        source == SliceTo(fullSource, MAX_SAMPLES)
        target == SliceTo(fullTarget, MAX_SAMPLES)
        redactedSource == RedactAll(source)
        redactedTarget == RedactAll(target)
        request(outcome) ==
            [count |-> genRequest.count + 1, source |-> sourceRows, target |-> targetRows,
             session |-> session, outcome |-> outcome]
    IN  /\ genRequest.count < MaxRequests
        /\ IF ~session
           THEN /\ genRequest' = request("unauthenticated")
                /\ UNCHANGED <<genCalls, genSent>>
           ELSE /\ genCalls' = genCalls + 1
                /\ genSent' = [sourceData |-> redactedSource, targetData |-> redactedTarget]
                /\ genRequest' = request(IF failed THEN "failed" ELSE "canvas")
        /\ UNCHANGED notGenerate
----------------------------------------------------------------------------
(* Specifications: each part runs alone, the others stay as constructed *)

StoreIdle ==
    /\ mappings = {}
    /\ nextId = 1
    /\ last = NoResult

RaceIdleState ==
    /\ calls = RaceIdle
    /\ sawZero = FALSE

AiIdle ==
    /\ aiInput = <<>>
    /\ aiCanvas = EmptyCanvas

InitStore == StoreIdle /\ RaceIdleState /\ AiIdle /\ ServeIdle /\ ImportIdle /\ GraphIdle /\ SchemaIdle /\ GenerateIdle /\ ResetIdle

\* the arguments tried with a caller: one choice when the call stops at the
\* missing user, every choice otherwise
ArgsFor(u, S) == IF u = NoUser THEN {CHOOSE x \in S : TRUE} ELSE S

NextStore ==
    \E u \in Users \cup {NoUser} :
        \/ \E name \in ArgsFor(u, Names), category \in ArgsFor(u, Categories),
              pv \in ArgsFor(u, ProvidedVersions), executionConfig \in ArgsFor(u, BOOLEAN),
              fail \in SaveFailPoints :
              SaveMapping(u, name, category, pv, executionConfig, fail)
        \/ \E id \in ArgsFor(u, Ids), isActive \in ArgsFor(u, BOOLEAN) :
              ToggleMappingStatus(id, u, isActive)
        \/ \E id \in ArgsFor(u, Ids), name \in ArgsFor(u, Names),
              category \in ArgsFor(u, Categories \cup {""}), fail \in ActivateFailPoints :
              ActivateVersion(id, u, name, category, fail)
        \/ \E id \in ArgsFor(u, Ids) : DeleteMapping(id, u)
        \/ \E id \in ArgsFor(u, Ids), name \in ArgsFor(u, Names),
              category \in ArgsFor(u, Categories),
              fail \in UpdateFailPoints, done \in SUBSET Ids :
              UpdateMapping(id, u, name, category, fail, done)
        \/ \E id \in ArgsFor(u, Ids), newName \in ArgsFor(u, Names) :
              CopyMapping(id, u, newName)
        \/ \E data \in IF u = NoUser THEN {<<>>} ELSE SelectOrdered(mappings, u) :
              GetLatestMappings(u, data)

SpecStore == InitStore /\ [][NextStore]_vars

InitRace ==
    /\ mappings = RaceStore
    /\ nextId = 3
    /\ last = NoResult
    /\ RaceIdleState /\ AiIdle /\ ServeIdle /\ ImportIdle /\ GraphIdle /\ SchemaIdle /\ GenerateIdle /\ ResetIdle

NextRace ==
    \E c \in Callers :
        \/ BeginSave(c)
        \/ \E id \in {1, 2} : BeginActivate(c, id)
        \/ SaveReadExisting(c)
        \/ SaveCheckConflict(c)
        \/ SaveGetVersion(c)
        \/ SaveDeactivate(c)
        \/ SaveInsert(c)
        \/ ActDeactivate(c)
        \/ ActActivate(c)

SpecRace == InitRace /\ [][NextRace]_vars

InitAi == AiIdle /\ ServeIdle /\ StoreIdle /\ RaceIdleState /\ ImportIdle /\ GraphIdle /\ SchemaIdle /\ GenerateIdle /\ ResetIdle

NextAi == \E map \in Suggestions : ConvertStep(map)

SpecAi == InitAi /\ [][NextAi]_vars

InitImport == ImportIdle /\ StoreIdle /\ RaceIdleState /\ AiIdle /\ ServeIdle /\ GraphIdle /\ SchemaIdle /\ GenerateIdle /\ ResetIdle

NextImport ==
    \/ \E e \in ImportableEdges : AuditEdge(e)
    \/ ApplyExpansion
    \/ TimerFires
    \/ \E params \in UserConnections : OnConnect(params)

SpecImport == InitImport /\ [][NextImport]_vars

InitGraph == GraphIdle /\ StoreIdle /\ RaceIdleState /\ AiIdle /\ ServeIdle /\ ImportIdle /\ SchemaIdle /\ GenerateIdle /\ ResetIdle

NextGraph ==
    \/ /\ Len(gNodes) < MaxNodes
       /\ \E type \in NodeTypes : \E data \in NodeData(type) : AddNode(type, data)
    \/ /\ Len(gEdges) < MaxEdges
       /\ \E s, t \in 1..MaxNodes, h \in EdgeHandles : s # t /\ Connect(s, t, h)
    \/ ExportUI
    \/ ImportUI

SpecGraph == InitGraph /\ [][NextGraph]_vars


\* the canvas edited with node removals, one node type per export category
EditedTypes == {"source", "target", "splitterTransform", "conversionMapping"}

EditedHandles == {[sourceHandle |-> "f1", targetHandle |-> "f1"]}

NextEdit ==
    \/ /\ Len(gNodes) < MaxNodes
       /\ \E type \in EditedTypes : \E data \in NodeData(type) : AddNode(type, data)
    \/ /\ Len(gEdges) < MaxEdges
       /\ \E s, t \in 1..MaxNodes, h \in EditedHandles : s # t /\ Connect(s, t, h)
    \/ \E i \in 1..MaxNodes : RemoveNode(i)
    \/ ExportUI

SpecEdit == InitGraph /\ [][NextEdit]_vars

\* chains of up to four nodes, each connection drawn from a node to one
\* dropped after it, one edited node per type and the two kinds of transform
ChainData(type) ==
    IF type = "ifThen"
    THEN {[BlankData EXCEPT !.operator = ">", !.compareValue = "5",
                             !.thenValue = "hi", !.elseValue = "lo"]}
    ELSE NodeData(type)

ChainTypes ==
    {"source", "target", "transform", "splitterTransform", "ifThen", "conversionMapping"}

NextChain ==
    \/ /\ Len(gNodes) < MaxChainNodes
       /\ \E type \in ChainTypes : \E data \in ChainData(type) : AddNode(type, data)
    \/ /\ Len(gEdges) < MaxChainEdges
       /\ \E s, t \in 1..MaxChainNodes, h \in EditedHandles :
              s < t /\ Connect(s, t, h)
    \/ ExportUI

SpecChain == InitGraph /\ [][NextChain]_vars

\* canvases whose connections may run in circles or from a node to itself
CycleTypes == {"transform", "conversionMapping", "ifThen", "target"}

NextCycle ==
    \/ /\ Len(gNodes) < MaxNodes
       /\ \E type \in CycleTypes : \E data \in ChainData(type) : AddNode(type, data)
    \/ /\ Len(gEdges) < MaxChainEdges
       /\ \E s, t \in 1..MaxNodes, h \in EditedHandles : Connect(s, t, h)
    \/ ExportUI

SpecCycle == InitGraph /\ [][NextCycle]_vars

\* coalesce rules kept where earlier versions kept them: each of the three
\* locations missing, empty, or holding one of two rules
OtherRule == [id |-> "r2", priority |-> 2, outputValue |-> "p"]

RulesLists == {NoList, List(<<>>), List(<<CoalesceRule>>), List(<<OtherRule>>)}

\* a configuration file with one coalesce transform
LegacyFiles ==
    {[name |-> "Untitled Mapping", version |-> "1.0.0",
      sources |-> <<>>, targets |-> <<>>, mappings |-> <<>>, connections |-> <<>>,
      transforms |->
          <<[id |-> "n1", type |-> "transform", label |-> "Coalesce",
             position |-> PositionOf(1), transformType |-> "coalesce",
             config |-> ExportedConfig("coalesce"),
             parameters |-> [BlankData EXCEPT !.rules = p],
             configData |-> [BlankData EXCEPT !.rules = c],
             nodeData |-> [BlankData EXCEPT !.rules = n, !.defaultValue = d]]>>] :
        n \in RulesLists, p \in RulesLists, c \in RulesLists, d \in {Undef, "d"}}

\* a coalesce node on the canvas with its rules in data.rules,
\* data.config.parameters.rules and data.config.rules
LegacyData ==
    {[BlankData EXCEPT !.transformType = "coalesce", !.rules = n,
                       !.config = [Config("own", Undef, Undef, 0, 0)
                                      EXCEPT !.rules = c, !.parameterRules = p]] :
        n \in RulesLists, p \in RulesLists, c \in RulesLists}

NextLegacy ==
    \/ \E file \in LegacyFiles : ImportFile(file)
    \/ /\ Len(gNodes) < 1
       /\ \E data \in LegacyData : AddNode("transform", data)
    \/ ExportUI

SpecLegacy == InitGraph /\ [][NextLegacy]_vars

InitServe == ServeIdle /\ AiIdle /\ StoreIdle /\ RaceIdleState /\ ImportIdle /\ GraphIdle /\ SchemaIdle /\ GenerateIdle /\ ResetIdle

\* the oracle is asked only past the two checks
NextServe ==
    \E auth \in AuthStates, key \in BOOLEAN :
        \E raw \in IF auth = "valid" /\ key THEN RawResponses ELSE {<<>>} :
            Serve(auth, key, raw)

SpecServe == InitServe /\ [][NextServe]_vars

\* the eleven operations of the service, each with and without a user, on
\* two names and one category, persistence errors left to SpecStore
CalledNames == {<<"a">>, <<"b">>}
CalledCategories == {DefaultCategory, ""}

NextCalls ==
    \E u \in Users \cup {NoUser} :
        \/ \E name \in CalledNames, executionConfig \in BOOLEAN :
              SaveMapping(u, name, DefaultCategory, 0, executionConfig, "none")
        \/ \E id \in Ids, isActive \in BOOLEAN : ToggleMappingStatus(id, u, isActive)
        \/ \E id \in Ids, name \in CalledNames :
              ActivateVersion(id, u, name, DefaultCategory, "none")
        \/ \E id \in Ids : DeleteMapping(id, u)
        \/ \E id \in Ids, name \in CalledNames, done \in SUBSET Ids :
              UpdateMapping(id, u, name, DefaultCategory, "none", done)
        \/ \E id \in Ids, newName \in CalledNames : CopyMapping(id, u, newName)
        \/ \E data \in IF u = NoUser THEN {<<>>} ELSE SelectOrdered(mappings, u) :
              GetLatestMappings(u, data)
        \/ \E fail \in BOOLEAN : GetMappings(u, fail)
        \/ \E name \in CalledNames, category \in CalledCategories, fail \in BOOLEAN :
              GetActiveMapping(name, u, category, fail)
        \/ \E category \in CalledCategories, fail \in BOOLEAN :
              GetMappingsByCategory(u, category, fail)
        \/ \E name \in CalledNames, fail \in BOOLEAN :
              GetMappingVersions(u, name, DefaultCategory, fail)

SpecCalls == InitStore /\ [][NextCalls]_vars

InitSchema ==
    SchemaIdle /\ GenerateIdle /\ ResetIdle /\ GraphIdle /\ StoreIdle /\ RaceIdleState /\ AiIdle /\ ServeIdle /\ ImportIdle

\* the controls of the editor: Add Field, and per field its name, type and
\* grouping inputs, Add Child on object and array fields, and the delete button
NextSchema ==
    \/ /\ Cardinality(FieldIds(schemaFields)) < MaxFields
       /\ \/ AddField(Undef)
          \/ \E field \in FieldsIn(schemaFields) :
                HasChildren(field.type) /\ AddField(field.id)
    \/ \E field \in FieldsIn(schemaFields) :
          \E updates \in UpdatesOffered(field) : UpdateField(field.id, updates)
    \/ \E field \in FieldsIn(schemaFields) : DeleteField(field.id)

SpecSchema == InitSchema /\ [][NextSchema]_vars

InitGenerate ==
    /\ GenerateIdle /\ ResetIdle /\ SchemaIdle /\ GraphIdle /\ StoreIdle /\ RaceIdleState
    /\ AiIdle /\ ServeIdle /\ ImportIdle

\* the sizes of the files: none, one row, around the sample count, the largest
FileSizes == {0, 1, MAX_SAMPLES - 1, MAX_SAMPLES, MAX_SAMPLES + 1, MaxFileLen}

\* files of up to MaxFileLen rows, with and without a session; the edge
\* function fails only when it was called
NextGenerate ==
    \E sourceRows, targetRows \in FileSizes, session \in BOOLEAN :
        \E failed \in IF session THEN BOOLEAN ELSE {FALSE} :
            GenerateMappingFromFiles(sourceRows, targetRows, session, failed)

SpecGenerate == InitGenerate /\ [][NextGenerate]_vars

InitReset ==
    /\ ResetIdle /\ GenerateIdle /\ SchemaIdle /\ GraphIdle /\ StoreIdle /\ RaceIdleState
    /\ AiIdle /\ ServeIdle /\ ImportIdle

NextReset ==
    \/ \E name \in ConfigNames : HandleImportMapping(name)
    \/ HandleNewMapping
    \/ ImportTimeout

SpecReset == InitReset /\ [][NextReset]_vars
----------------------------------------------------------------------------
(* Claims about the store, checked under SpecStore *)

\* C1: after any sequence of completed MappingService calls, every
\* (user, mapping_group_id) partition has at most one row with is_active = true.
C1_AtMostOneActivePerGroup ==
    \A r1, r2 \in mappings :
        (r1.user_id = r2.user_id /\ r1.mapping_group_id = r2.mapping_group_id
         /\ r1.is_active /\ r2.is_active) => r1 = r2

\* C2: after a successful saveMapping the group of the inserted row has exactly
\* one active row, and it is the inserted row.
C2_SaveLeavesNewVersionOnlyActive ==
    (last.op = "save" /\ last.ok) =>
        /\ \E r \in mappings : r.id = last.id /\ r.mapping_group_id = last.group
        /\ \A r \in ActiveInGroup(mappings, last.group) : r.id = last.id
        /\ Cardinality(ActiveInGroup(mappings, last.group)) = 1

\* a save that superseded an earlier version of its group has just resolved
C2_Witness ==
    /\ last.op = "save" /\ last.ok
    /\ \E r \in mappings : r.mapping_group_id = last.group /\ r.id # last.id

\* C3: a successful activateVersion(id, name, category) called with the row's own
\* name and category leaves row id active and every other row of its group inactive.
C3_ActivateLeavesOnlyTargetActive ==
    \A r \in mappings :
        (last.op = "activate" /\ last.ok /\ r.id = last.id
         /\ r.name = last.name /\ r.category = last.category) =>
            /\ r.is_active
            /\ \A o \in mappings :
                   (o.user_id = r.user_id /\ o.mapping_group_id = r.mapping_group_id
                    /\ o.id # r.id) => ~o.is_active

\* C4: saveMapping with a name already used by a row of another group than the
\* one the save joins rejects and writes nothing; so no save resolves while a row
\* of a different group carries the saved name.
C4_SaveRejectsNameOfOtherGroup ==
    (last.op = "save" /\ last.ok) =>
        ~\E r \in mappings : /\ r.name = last.name
                             /\ r.mapping_group_id # last.group
                             /\ \E n \in mappings : n.id = last.id /\ n.user_id = r.user_id


GroupOf(M, id) == SelectById(M, "u1", id).mapping_group_id

\* C11: a single activateVersion call on a row, with the row's own name and
\* category, from a table with at most one active row in the row's group:
\* when it stops after its deactivate step the group has no active row, and
\* neither then nor at its end does the group have more than one
C11_ActivateStopsInactiveNeverMulti ==
    [][last'.op = "activate" =>
       \A id \in Ids, name \in Names, category \in Categories, fail \in {"activate", "none"} :
          ( /\ SelectById(mappings, "u1", id) # NoRow
            /\ SelectById(mappings, "u1", id).name = name
            /\ SelectById(mappings, "u1", id).category = category
            /\ Cardinality(ActiveInGroup(mappings, GroupOf(mappings, id))) <= 1
            /\ ActivateVersion(id, "u1", name, category, fail) )
          => /\ fail = "activate" => ActiveInGroup(mappings', GroupOf(mappings, id)) = {}
             /\ Cardinality(ActiveInGroup(mappings', GroupOf(mappings, id))) <= 1]_vars

\* C12: a saveMapping call whose deactivate-all update fails rejects with the
\* deactivation error, inserts nothing and leaves every row as it was
C12_FailedDeactivationChangesNothing ==
    [][last'.op = "save" =>
       \A name \in Names, category \in Categories, pv \in ProvidedVersions,
          executionConfig \in BOOLEAN :
          SaveMapping("u1", name, category, pv, executionConfig, "deactivate")
          => /\ mappings' = mappings
             /\ nextId' = nextId
             /\ ~last'.ok /\ last'.err = "deactivate"]_vars

\* a save has just been rejected at the deactivation of a group with an active row
C12_Witness ==
    /\ last.op = "save" /\ ~last.ok /\ last.err = "deactivate"
    /\ \E r \in mappings : r.is_active

\* C13: a saveMapping call whose insert fails after the deactivation leaves
\* the table as before the call (the active version is still active)
C13_FailedInsertChangesNothing ==
    [][last'.op = "save" =>
       \A name \in Names, category \in Categories, pv \in ProvidedVersions,
          executionConfig \in BOOLEAN :
          SaveMapping("u1", name, category, pv, executionConfig, "insert")
          => mappings' = mappings]_vars

\* C14: copyMapping fails and inserts nothing when a row of the user has the
\* trimmed new name; a successful copy adds exactly one row, active, with the
\* bootstrap version and a group id no row had, and changes no other row
C14_CopyAddsOneActiveRowInFreshGroup ==
    [][last'.op = "copy" =>
       \A id \in Ids, newName \in Names :
          CopyMapping(id, "u1", newName)
          => IF \E r \in mappings : r.user_id = "u1" /\ r.name = Trim(newName)
             THEN ~last'.ok /\ mappings' = mappings
             ELSE last'.ok =>
                    \E row \in mappings' \ mappings :
                        /\ mappings' = mappings \cup {row}
                        /\ row.is_active
                        /\ row.version = BootstrapVersion
                        /\ row.name = Trim(newName)
                        /\ \A r \in mappings : /\ r.mapping_group_id # row.mapping_group_id
                                               /\ r.id # row.id]_vars

\* a copy of an inactive row has resolved and the row is still inactive
C14_Witness ==
    /\ last.op = "copy" /\ last.ok
    /\ \E r \in mappings : r.id = last.id /\ r.is_active /\ r.name = last.name
    /\ \E r \in mappings : r.id # last.id /\ ~r.is_active

\* C15: a step of updateMapping changes a row only when no row of another
\* group has the trimmed name (a call that meets one fails and changes none);
\* after a successful call every row of the group has the trimmed name in its
\* name column, in ui_config.name and in execution_config.name when it has an
\* execution_config, and no row changed its is_active flag or group id
C15_RenameReachesEveryVersion ==
    [][last'.op = "update" =>
        /\ \A n \in mappings' \ mappings : \A o \in mappings :
              (o.user_id = n.user_id /\ o.name = n.name)
                  => o.mapping_group_id = n.mapping_group_id
        /\ last'.err \in {"auth", "notfound", "conflict", "fetch"} => mappings' = mappings
        /\ last'.ok =>
              /\ \A o \in mappings :
                    o.name = last'.name => o.mapping_group_id = last'.group
              /\ {n.id : n \in mappings'} = {o.id : o \in mappings}
              /\ Cardinality(mappings') = Cardinality(mappings)
              /\ \A n \in mappings' :
                    n.mapping_group_id = last'.group =>
                        /\ n.name = last'.name
                        /\ n.ui_config_name = last'.name
                        /\ n.execution_config_name \in {last'.name, NoExecutionConfig}
              /\ \A o \in mappings : \E n \in mappings' :
                    /\ n.id = o.id
                    /\ n.is_active = o.is_active
                    /\ n.mapping_group_id = o.mapping_group_id
                    /\ (o.execution_config_name = NoExecutionConfig)
                          <=> (n.execution_config_name = NoExecutionConfig)
                    /\ o.mapping_group_id # last'.group => n = o]_vars

\* a rename of a group of two versions, one with an execution_config, has resolved
C15_Witness ==
    /\ last.op = "update" /\ last.ok
    /\ \E r1, r2 \in mappings :
          /\ r1.id # r2.id
          /\ r1.mapping_group_id = last.group /\ r2.mapping_group_id = last.group
          /\ r1.name = last.name /\ r2.name = last.name
          /\ r1.execution_config_name = last.name
          /\ r1.ui_config_name = last.name

\* C16: getLatestMappings returns exactly one row per group of the user; the
\* row of a group with an active row is active, the row of a group with none
\* has the highest version of the group
C16_LatestIsActiveOrHighest ==
    [][last'.op = "latest" =>
       \A data \in SelectOrdered(mappings, "u1") :
          GetLatestMappings("u1", data)
          => /\ last'.rows \subseteq mappings
             /\ \A m \in mappings :
                   Cardinality({r \in last'.rows :
                                   r.mapping_group_id = m.mapping_group_id}) = 1
             /\ \A r \in last'.rows :
                   IF ActiveInGroup(mappings, r.mapping_group_id) # {}
                   THEN r.is_active
                   ELSE \A o \in mappings :
                           o.mapping_group_id = r.mapping_group_id
                               => o.version <= r.version]_vars

\* a call of one of the eleven operations without a user
CalledWithoutUser ==
    \/ \E name \in CalledNames, executionConfig \in BOOLEAN :
          SaveMapping(NoUser, name, DefaultCategory, 0, executionConfig, "none")
    \/ \E id \in Ids, isActive \in BOOLEAN : ToggleMappingStatus(id, NoUser, isActive)
    \/ \E id \in Ids, name \in CalledNames :
          ActivateVersion(id, NoUser, name, DefaultCategory, "none")
    \/ \E id \in Ids : DeleteMapping(id, NoUser)
    \/ \E id \in Ids, name \in CalledNames :
          UpdateMapping(id, NoUser, name, DefaultCategory, "none", {})
    \/ \E id \in Ids, newName \in CalledNames : CopyMapping(id, NoUser, newName)
    \/ GetLatestMappings(NoUser, <<>>)
    \/ \E fail \in BOOLEAN : GetMappings(NoUser, fail)
    \/ \E name \in CalledNames, category \in CalledCategories, fail \in BOOLEAN :
          GetActiveMapping(name, NoUser, category, fail)
    \/ \E category \in CalledCategories, fail \in BOOLEAN :
          GetMappingsByCategory(NoUser, category, fail)
    \/ \E name \in CalledNames, fail \in BOOLEAN :
          GetMappingVersions(NoUser, name, DefaultCategory, fail)

OperationNames ==
    {"save", "toggle", "activate", "delete", "update", "copy", "latest",
     "all", "active", "byCategory", "versions"}

\* C23: each of the eleven operations, called with an empty userId, rejects
\* with the authentication error and leaves the table as it was
C23_NoUserIsRejectedAndChangesNothing ==
    [][CalledWithoutUser =>
          /\ last'.op \in OperationNames
          /\ ~last'.ok
          /\ last'.err = "auth"
          /\ mappings' = mappings
          /\ nextId' = nextId]_vars

\* a call without user was rejected on a table that holds a row
C23_Witness ==
    /\ mappings # {}
    /\ last.err = "auth"
    /\ last.op = "copy"

\* C25: no two rows of one user that belong to different mapping groups have
\* the same name
C25_NamesUniqueAcrossGroups ==
    \A r, s \in mappings :
        (r.user_id = s.user_id /\ r.mapping_group_id # s.mapping_group_id) =>
            r.name # s.name

\* C26: after every completed operation each group that has a row has an
\* active row, and a save under the name of a group with no active row
\* resolves and leaves the group with one
C26_EveryGroupHasActiveVersion ==
    \A r \in mappings :
        \E s \in mappings :
            /\ s.user_id = r.user_id
            /\ s.mapping_group_id = r.mapping_group_id
            /\ s.is_active

\* C27: a save under a name that has an active row joins that row's group,
\* and its row carries the category the caller passed, whichever it is
C27_PassedCategoryIsKept ==
    [][last'.op = "save" =>
          \A name \in Names, category \in Categories, pv \in ProvidedVersions,
             executionConfig \in BOOLEAN :
              (/\ SelectActiveByName(mappings, "u1", name) # NoRow
               /\ SaveMapping("u1", name, category, pv, executionConfig, "none")) =>
                  \E r \in mappings' :
                      /\ r.id = last'.id
                      /\ r.mapping_group_id =
                            SelectActiveByName(mappings, "u1", name).mapping_group_id
                      /\ r.category = category]_vars
----------------------------------------------------------------------------
(* Claims about two concurrent callers, checked under SpecRace *)

BothDone == \A c \in Callers : calls[c].pc = "done"

----------------------------------------------------------------------------
(* Claims about convertMappingsToCanvas, checked under SpecAi *)

RemoveAt(list, i) == SubSeq(list, 1, i - 1) \o SubSeq(list, i + 1, Len(list))

NodeIds(nodes) == {nodes[i].id : i \in DOMAIN nodes}
SeqSet(q) == {q[i] : i \in DOMAIN q}

Returned == [nodes |-> aiCanvas.nodes, edges |-> aiCanvas.edges]

\* C6: a suggestion of type skip or of an unrecognized type contributes no node
\* and no edge: the output equals the output for the list without that entry.
C6_SkipContributesNothing ==
    \A i \in DOMAIN aiInput :
        aiInput[i].mapping_type \in {"skip", "lookup"} =>
            Returned = ConvertMappingsToCanvas(RemoveAt(aiInput, i))

ListPermutations(list) ==
    {[i \in DOMAIN list |-> list[p[i]]] :
        p \in {f \in [DOMAIN list -> DOMAIN list] :
                  \A i, j \in DOMAIN list : f[i] = f[j] => i = j}}

\* C7: the set of node ids is the same for every permutation of the list, and
\* every id comes from one entry alone (its field name and role): the set is the
\* union of the id sets of the one-entry lists.
C7_NodeIdsOrderInsensitive ==
    /\ \A p \in ListPermutations(aiInput) :
           NodeIds(ConvertMappingsToCanvas(p).nodes) = NodeIds(Returned.nodes)
    /\ NodeIds(Returned.nodes) =
           UNION {NodeIds(ConvertMappingsToCanvas(<<aiInput[i]>>).nodes) : i \in DOMAIN aiInput}

\* two different suggestions for one target field, one of them with a transform
C7_Witness ==
    /\ Len(aiInput) = 2
    /\ aiInput[1].target_field = aiInput[2].target_field
    /\ aiInput[1].mapping_type = "direct"
    /\ aiInput[2].mapping_type = "static"

IsConcatOfDistinct(map) ==
    /\ map.mapping_type = "concat"
    /\ \A i, j \in DOMAIN map.source_fields :
           map.source_fields[i] = map.source_fields[j] => i = j

\* C9: for one concat suggestion with target t and k distinct source fields the
\* output has exactly the nodes source_<f> (one per field), concat_<t> and
\* target_<t>, one edge source_<f> -> concat_<t> per field and one edge
\* concat_<t> -> target_<t>.
C9_ConcatShape ==
    (Len(aiInput) = 1 /\ IsConcatOfDistinct(aiInput[1])) =>
        LET map == aiInput[1]
            t == map.target_field
            fs == SeqSet(map.source_fields)
            k == Len(map.source_fields)
        IN  /\ Len(Returned.nodes) = k + 2
            /\ {[id |-> n.id, type |-> n.type] : n \in SeqSet(Returned.nodes)} =
                   {[id |-> <<"source", f>>, type |-> "SourceNode"] : f \in fs}
                   \cup {[id |-> <<"concat", t>>, type |-> "ConcatTransformNode"],
                         [id |-> <<"target", t>>, type |-> "TargetNode"]}
            /\ Len(Returned.edges) = k + 1
            /\ {[from |-> e.from, to |-> e.to] : e \in SeqSet(Returned.edges)} =
                   {[from |-> <<"source", f>>, to |-> <<"concat", t>>] : f \in fs}
                   \cup {[from |-> <<"concat", t>>, to |-> <<"target", t>>]}

\* the concat of two different source fields has been converted
C9_Witness ==
    /\ Len(aiInput) = 1
    /\ IsConcatOfDistinct(aiInput[1])
    /\ Len(aiInput[1].source_fields) = 2
    /\ Len(aiCanvas.nodes) = 4


\* the source fields a suggestion names, by its mapping type
SourceFieldsOf(map) ==
    IF map.mapping_type \in {"direct", "table", "date_conversion", "split"}
    THEN {map.source_field}
    ELSE IF map.mapping_type = "concat" THEN SeqSet(map.source_fields)
    ELSE {}

NodesWithId(id) == {i \in DOMAIN aiCanvas.nodes : aiCanvas.nodes[i].id = id}

\* C24: the nodes have pairwise distinct ids, and every target field and
\* every source field named by a suggestion that is not skipped has exactly
\* one node, target_<field> resp. source_<field>, however many suggestions
\* name it
C24_OneNodePerFieldAndRole ==
    /\ \A i, j \in DOMAIN aiCanvas.nodes :
          aiCanvas.nodes[i].id = aiCanvas.nodes[j].id => i = j
    /\ \A k \in DOMAIN aiInput :
          aiInput[k].mapping_type # "skip" =>
             /\ Cardinality(NodesWithId(NodeId("target", aiInput[k].target_field))) = 1
             /\ \A i \in NodesWithId(NodeId("target", aiInput[k].target_field)) :
                   aiCanvas.nodes[i].type = "TargetNode"
             /\ \A f \in SourceFieldsOf(aiInput[k]) :
                   /\ Cardinality(NodesWithId(NodeId("source", f))) = 1
                   /\ \A i \in NodesWithId(NodeId("source", f)) :
                         aiCanvas.nodes[i].type = "SourceNode"

\* two suggestions that name the same target field and the same source field
C24_Witness ==
    /\ Len(aiInput) = 2
    /\ aiInput[1].mapping_type = "direct" /\ aiInput[2].mapping_type = "split"
    /\ aiInput[1].target_field = aiInput[2].target_field
    /\ aiInput[1].source_field = aiInput[2].source_field
    /\ Len(aiCanvas.nodes) = 3

\* the column of a node of the canvas and the nodes of that column before it
ColumnX(node) ==
    IF node.type = "SourceNode" THEN 100
    ELSE IF node.type = "TargetNode" THEN 800 ELSE 450

AheadInColumn(nodes, i) ==
    Cardinality({j \in 1..(i - 1) : ColumnX(nodes[j]) = ColumnX(nodes[i])})

\* C35: applyTemplate gives every node of a canvas that
\* convertMappingsToCanvas produced the position of its column (sources at
\* x 100, transforms at 450, targets at 800, y = 100 + 120 * index in the
\* column), the fallback is never taken, and no two nodes share a position
C35_EveryNodePlacedInItsColumn ==
    LET placed == ApplyTemplate(aiCanvas).nodes
    IN  /\ Len(placed) = Len(aiCanvas.nodes)
        /\ \A i \in 1..Len(placed) :
              /\ placed[i].id = aiCanvas.nodes[i].id
              /\ placed[i].position =
                    [x |-> ColumnX(aiCanvas.nodes[i]),
                     y |-> 100 + 120 * AheadInColumn(aiCanvas.nodes, i)]
        /\ \A i, j \in 1..Len(placed) :
              placed[i].position = placed[j].position => i = j

\* two sources, a transform and a target laid out
C35_Witness ==
    LET placed == ApplyTemplate(aiCanvas).nodes
    IN  /\ \E i \in 1..Len(placed) : placed[i].position = [x |-> 100, y |-> 220]
        /\ \E i \in 1..Len(placed) : placed[i].position = [x |-> 450, y |-> 100]
        /\ \E i \in 1..Len(placed) : placed[i].position = [x |-> 800, y |-> 100]

\* the nodes of the canvas with an id
CanvasNodesWithId(id) ==
    {aiCanvas.nodes[i] : i \in {j \in 1..Len(aiCanvas.nodes) : aiCanvas.nodes[j].id = id}}

TransformPrefixes == {"static", "if", "convert", "date", "concat", "split"}

\* C38: every edge convertMappingsToCanvas returns starts and ends at a node
\* of the returned list, and an edge into a target node leaves a source node
\* (a direct edge) or the transform node made for that target field
C38_EdgesJoinReturnedNodes ==
    \A k \in 1..Len(aiCanvas.edges) :
        LET e == aiCanvas.edges[k]
        IN  /\ CanvasNodesWithId(e.from) # {}
            /\ CanvasNodesWithId(e.to) # {}
            /\ \A t \in CanvasNodesWithId(e.to) :
                  t.type = "TargetNode" =>
                      \A s \in CanvasNodesWithId(e.from) :
                          \/ e.type = "direct" /\ s.type = "SourceNode"
                          \/ /\ e.type = "edge"
                             /\ s.type \notin {"SourceNode", "TargetNode"}
                             /\ e.from[1] \in TransformPrefixes
                             /\ e.from[2] = e.to[2]

\* a direct edge and the edges of a concat of two sources on one canvas
C38_Witness ==
    /\ Len(aiInput) = 2
    /\ aiInput[1].mapping_type = "direct" /\ aiInput[2].mapping_type = "concat"
    /\ Len(aiInput[2].source_fields) = 2
    /\ aiInput[2].source_fields[1] # aiInput[2].source_fields[2]
    /\ Len(aiCanvas.edges) = 4
----------------------------------------------------------------------------
(* Claims on the expansion audit *)

\* a character of a path belongs to an index segment when a "[" at or before
\* it is followed by no "]" up to it, and a "]" stands at or after it
InIndexSegment(s, i) ==
    \E j \in 1..i :
        /\ s[j] = "["
        /\ \A m \in j..(i - 1) : s[m] # "]"
        /\ \E k \in i..Len(s) : s[k] = "]"

RECURSIVE KeepOutside(_, _)
KeepOutside(s, i) ==
    IF i > Len(s) THEN <<>>
    ELSE IF InIndexSegment(s, i) THEN KeepOutside(s, i + 1)
    ELSE <<s[i]>> \o KeepOutside(s, i + 1)

\* the proper prefixes of a dot-separated path, index segments removed
StrippedPrefixes(h) == {KeepOutside(SubSeq(h, 1, k - 1), 1) : k \in {d \in 1..Len(h) : h[d] = "."}}

HasBracketedIndex(p) == \E j \in 1..Len(p) : p[j] = "[" /\ \E k \in (j + 1)..Len(p) : p[k] = "]"

AuditedNodeIds == {"s1", "s2", "t1", "g1"}

HandlesAudited(nodeId) ==
    {impEdges[i].sourceHandle : i \in {j \in 1..Len(impEdges) : impEdges[j].source = nodeId}}

ItemsCity ==
    <<"i", "t", "e", "m", "s", "[", "2", "]", ".",
      "a", "d", "d", "r", "e", "s", "s", ".", "c", "i", "t", "y">>

ItemsPaths ==
    { <<"i", "t", "e", "m", "s">>,
      <<"i", "t", "e", "m", "s", ".", "a", "d", "d", "r", "e", "s", "s">> }

\* C8 as stated: the expansion set of a node holds exactly the stripped proper
\* prefixes of the handles of its edges, none of them with a bracketed index
C8_ExpansionIsEveryStrippedPrefix ==
    \A n \in AuditedNodeIds :
        /\ EntryOf(impExpand, n) = UNION {StrippedPrefixes(h) : h \in HandlesAudited(n)}
        /\ \A p \in EntryOf(impExpand, n) : ~HasBracketedIndex(p)

\* C8, amended: the expansion set of a node holds exactly the non-empty
\* stripped proper prefixes of the handles of its edges; no entry has a
\* bracketed index; "items[2].address.city" alone yields items and
\* items.address; an edge without handle adds nothing; setNodes gives a
\* source node with an entry exactly that set
C8_ExpansionIsEveryNonEmptyStrippedPrefix ==
    /\ \A n \in AuditedNodeIds :
        /\ EntryOf(impExpand, n) = UNION {StrippedPrefixes(h) : h \in HandlesAudited(n)} \ {<<>>}
        /\ \A p \in EntryOf(impExpand, n) : ~HasBracketedIndex(p)
        /\ HandlesAudited(n) = {ItemsCity} => EntryOf(impExpand, n) = ItemsPaths
        /\ HandlesAudited(n) \subseteq {<<>>} => ~HasEntry(impExpand, n)
    /\ \A i \in 1..Len(impNodes) :
        /\ impNodes[i].hasExpanded =>
              impNodes[i].initialExpandedFields = EntryOf(impExpand, impNodes[i].id)
        /\ impNodes[i].hasExpanded <=>
              (impNodes[i].type = "source" /\ HandlesAudited(impNodes[i].id) \ {<<>>} # {})

C8_Witness ==
    /\ Len(impEdges) = 2
    /\ impEdges[1].source = "s1" /\ impEdges[1].sourceHandle = ItemsCity
    /\ impEdges[2].source = "s1" /\ impEdges[2].sourceHandle = <<>>
    /\ Len(impNodes) = 4
    /\ impNodes[1].hasExpanded
    /\ impNodes[1].initialExpandedFields = ItemsPaths


\* every setEdges(importedEdges) comes after a setNodes(enhancedNodes) and a
\* setEdges([]) that follows it
AppliedAfterNodesAndClear ==
    \A i \in 1..Len(canvasCalls) :
        canvasCalls[i] = "setEdges(importedEdges)" =>
            \E j \in 1..(i - 1), k \in 1..(i - 1) :
                /\ j < k
                /\ canvasCalls[j] = "setNodes(enhancedNodes)"
                /\ canvasCalls[k] = "setEdges([])"

\* the connections drawn since the clearing
ConnectsSinceClear ==
    {i \in Connects(canvasCalls) :
        \E k \in 1..(i - 1) : canvasCalls[k] = "setEdges([])"}

C37_TimeoutEdgesBelongToLoadedConfiguration ==
    \A i \in 1..Len(resetEdges) : resetEdges[i].config = resetLoaded
----------------------------------------------------------------------------
(* Claims on the export and import of the canvas *)

\* the transform parameters of a node as the exporter reads them
ParametersRead(node) ==
    LET d == node.data
    IN  [operator |-> Or(d.operator, "="), compareValue |-> Or(d.compareValue, ""),
         thenValue |-> Or(d.thenValue, ""), elseValue |-> Or(d.elseValue, ""),
         values |-> d.values, delimiter |-> Or(d.delimiter, ","),
         splitIndex |-> d.splitIndex, rules |-> OrList(d.rules, List(<<>>)),
         defaultValue |-> Or(d.defaultValue, ""), outputType |-> Or(d.outputType, "value"),
         mappings |-> d.mappings,
         config |-> IF d.config.shape = "own" THEN d.config ELSE AbsentConfig]

NodeView(node) ==
    [id |-> node.id, type |-> node.type, position |-> node.position,
     fields |-> node.data.fields, parameters |-> ParametersRead(node)]

EdgeView(edge) ==
    [source |-> edge.source, target |-> edge.target,
     sourceHandle |-> Or(edge.sourceHandle, ""), targetHandle |-> Or(edge.targetHandle, "")]

ViewsOf(seq, View(_)) == {View(seq[i]) : i \in 1..Len(seq)}

\* C5: the graph imported from the UI export of a canvas has the same node
\* ids, node types, positions, field trees, transform parameters and the same
\* edges as the canvas
C5_ImportOfExportIsSameGraph ==
    gImported # <<>> =>
        /\ Len(gImported[1].nodes) = Len(gNodes)
        /\ ViewsOf(gImported[1].nodes, NodeView) = ViewsOf(gNodes, NodeView)
        /\ ViewsOf(gImported[1].edges, EdgeView) = ViewsOf(gEdges, EdgeView)


\* every array-typed field of a field tree, at any depth
RECURSIVE ArrayFieldsOf(_)
ArrayFieldsOf(fields) ==
    UNION {(IF fields[i].type = "array" THEN {fields[i]} ELSE {})
           \cup ArrayFieldsOf(fields[i].children) : i \in 1..Len(fields)}

\* the groupBy the entry matching a field gives it, and none without a match
GroupByFrom(field, arrayConfigs) ==
    LET found == {j \in 1..Len(arrayConfigs) : arrayConfigs[j].target = field.name}
    IN  IF found = {} THEN Undef
        ELSE Or(arrayConfigs[CHOOSE j \in found : \A k \in found : j <= k].groupBy, Undef)

TargetsOf(nodes) == {nodes[i] : i \in {j \in 1..Len(nodes) : nodes[j].type = "target"}}

\* C17: reconstructSchemaFields gives every array-typed field, at any depth,
\* the groupBy of the array configuration entry whose target is the field's
\* name, and no groupBy when no entry matches or no list is supplied; the
\* interactive import supplies no list
C17_GroupByFollowsArrayConfigs ==
    gImported # <<>> =>
        \A node \in TargetsOf(gImported[1].nodes) :
            \A field \in ArrayFieldsOf(node.data.fields) :
                field.groupBy = GroupByFrom(field, <<>>)

\* every field of a field tree, at any depth
RECURSIVE AllFieldsOf(_)
AllFieldsOf(fields) ==
    UNION {{fields[i]} \cup AllFieldsOf(fields[i].children) : i \in 1..Len(fields)}

OriginTypes == {"source", "staticValue", "ifThen", "conversionMapping"}

\* the edges that end on a field of the given name, at any depth of a target
\* node, and leave a node of an origin type
EdgesOnto(name) ==
    {i \in 1..Len(gEdges) :
        /\ \E t \in TargetsOf(gNodes) :
              /\ gEdges[i].target = t.id
              /\ \E f \in AllFieldsOf(t.data.fields) :
                    f.id = gEdges[i].targetHandle /\ f.name = name
        /\ \E n \in 1..Len(gNodes) :
              gNodes[n].id = gEdges[i].source /\ gNodes[n].type \in OriginTypes}

\* the same edges, ending on a field of the first level only
EdgesOntoTopLevel(name) ==
    {i \in EdgesOnto(name) :
        \E t \in TargetsOf(gNodes) :
            /\ gEdges[i].target = t.id
            /\ \E k \in 1..Len(t.data.fields) :
                  t.data.fields[k].id = gEdges[i].targetHandle /\ t.data.fields[k].name = name}

MappingsTo(name) == {i \in 1..Len(gExecution) : gExecution[i].to = name}

TargetFieldNames == {"name", "items", "sku"}

\* C19: the execution export holds exactly one mapping per edge that ends on
\* a field of a target node, nested fields included, and leaves a source,
\* staticValue, ifThen or conversionMapping node, with to = the field's name
C19_OneMappingPerEdgeOntoAnyField ==
    gConfig # <<>> =>
        \A name \in TargetFieldNames :
            Cardinality(MappingsTo(name)) = Cardinality(EdgesOnto(name))

\* the code's own reach: one mapping per such edge onto a first-level field
FirstLevel_OneMappingPerEdge ==
    gConfig # <<>> =>
        \A name \in TargetFieldNames :
            Cardinality(MappingsTo(name)) = Cardinality(EdgesOntoTopLevel(name))

\* C20: in every exported ExecutionMapping, from is null exactly when the
\* type is static, and the map attribute is present exactly when the type is
\* map
C20_NullFromIsStaticAndMapIsMap ==
    \A i \in 1..Len(gExecution) :
        /\ gExecution[i].from = Null <=> gExecution[i].type = "static"
        /\ "map" \in DOMAIN gExecution[i] <=> gExecution[i].type = "map"

C20_Witness ==
    /\ Len(gExecution) = 2
    /\ gExecution[1].type = "static" /\ gExecution[1].from = Null
    /\ gExecution[2].type = "map" /\ gExecution[2].map = [k \in {"A"} |-> "1"]

\* the ids listed under nodes.sources, .targets, .transforms and .mappings
ListedIds(list) == {list[i].id : i \in 1..Len(list)}

\* the number of the four node lists of a configuration that hold an id
ListsHolding(config, id) ==
    Cardinality({k \in 1..4 :
        id \in ListedIds(<<config.sources, config.targets,
                           config.transforms, config.mappings>>[k])})

\* C21: every connection of an exported configuration names, as source and
\* as target, the id of a node listed in exactly one of the four node lists
C21_ConnectionsNameListedNodes ==
    gConfig # <<>> =>
        \A i \in 1..Len(gConfig[1].connections) :
            /\ ListsHolding(gConfig[1], gConfig[1].connections[i].sourceNodeId) = 1
            /\ ListsHolding(gConfig[1], gConfig[1].connections[i].targetNodeId) = 1

\* the nodes of the canvas with the given id and type
NodesOfType(id, type) ==
    {gNodes[n] : n \in {k \in 1..Len(gNodes) : gNodes[k].id = id /\ gNodes[k].type = type}}

\* the first edge of the canvas into a node, as a set of at most one index
FirstEdgeInto(id) ==
    LET into == {i \in 1..Len(gEdges) : gEdges[i].target = id}
    IN  {i \in into : \A j \in into : i <= j}

\* the name of the source field at the far end of a node's input, reached
\* through at most `hops` transform or splitter nodes: a set of at most one name
RECURSIVE UltimateSourceField(_, _)
UltimateSourceField(id, hops) ==
    UNION {LET e == gEdges[i]
           IN  {f.name : f \in {g \in UNION {{n.data.fields[k] : k \in 1..Len(n.data.fields)} :
                                             n \in NodesOfType(e.source, "source")} :
                                  g.id = e.sourceHandle}}
               \cup (IF hops > 0 /\ (NodesOfType(e.source, "transform")
                                     \cup NodesOfType(e.source, "splitterTransform")) # {}
                     THEN UltimateSourceField(e.source, hops - 1)
                     ELSE {})
           : i \in FirstEdgeInto(id)}

\* the edges that leave a node of the given type and end on a first-level
\* field of a target node, each with the name of that field
EdgesFromOnto(type) ==
    {<<i, f.name>> : i \in 1..Len(gEdges), f \in {NameField, ItemsField}} \cap
    {x \in (1..Len(gEdges)) \X {"name", "items"} :
        /\ NodesOfType(gEdges[x[1]].source, type) # {}
        /\ \E t \in TargetsOf(gNodes) :
              /\ gEdges[x[1]].target = t.id
              /\ \E k \in 1..Len(t.data.fields) :
                    /\ t.data.fields[k].id = gEdges[x[1]].targetHandle
                    /\ t.data.fields[k].name = x[2]}

\* the ifThen mapping the statement describes for an edge onto a field
IfThenExpected(node, from, to) ==
    [from |-> from, to |-> to, type |-> "ifThen",
     if |-> [operator |-> node.data.operator, value |-> node.data.compareValue],
     then |-> node.data.thenValue, else |-> node.data.elseValue]

Exported == {gExecution[i] : i \in 1..Len(gExecution)}

\* C28: an edge from an ifThen node onto a target field is exported as an
\* ifThen mapping whose from is the source field reached from the node's input
\* through any transform nodes in between, with operator, value, then and else
\* of the node
C28_IfThenFromIsUltimateSourceField ==
    gConfig # <<>> =>
        \A x \in EdgesFromOnto("ifThen") :
            \A node \in NodesOfType(gEdges[x[1]].source, "ifThen") :
                \A from \in UltimateSourceField(node.id, MaxChainNodes) :
                    IfThenExpected(node, from, x[2]) \in Exported

\* the code's own reach: the same with the source node directly on the
\* ifThen node's input
OneHop_IfThenFromIsSourceField ==
    gConfig # <<>> =>
        \A x \in EdgesFromOnto("ifThen") :
            \A node \in NodesOfType(gEdges[x[1]].source, "ifThen") :
                \A from \in UltimateSourceField(node.id, 0) :
                    IfThenExpected(node, from, x[2]) \in Exported

\* the fields of the source nodes an edge leaves by its source handle
SourceFieldsLeft(e) ==
    {g \in UNION {{n.data.fields[k] : k \in 1..Len(n.data.fields)} :
                     n \in NodesOfType(e.source, "source")} :
        g.id = e.sourceHandle}

\* the map mappings exported onto a field, with and without a transform
MapsOnto(to, from) ==
    {m \in Exported : m.type = "map" /\ m.to = to /\ m.from = from}

Transformed(m) == "transform" \in DOMAIN m

OriginMissing(e) ==
    /\ NodesOfType(e.target, "target") # {}
    /\ \A n \in 1..Len(gNodes) : gNodes[n].id # e.source

\* an edge into a target node whose origin node has no export branch
OriginOfOtherType(e) ==
    /\ NodesOfType(e.target, "target") # {}
    /\ \E n \in 1..Len(gNodes) :
          gNodes[n].id = e.source /\ gNodes[n].type \notin OriginTypes

NotSkipped(e) == ~(OriginMissing(e) \/ OriginOfOtherType(e))

\* the edges onto a first-level field of a target node
OntoField(e) ==
    \E t \in NodesOfType(e.target, "target") :
        \E k \in 1..Len(t.data.fields) : t.data.fields[k].id = e.targetHandle

\* C30: an edge into a target field whose origin node is missing or is not a
\* source, staticValue, ifThen or conversionMapping node adds no mapping to
\* the export, the export completes, and the mappings are those the canvas
\* gives without such edges
C30_SkippedEdgesChangeNothing ==
    gConfig # <<>> =>
        /\ gExecution = ExportExecutionMapping(gNodes, SelectSeq(gEdges, NotSkipped))
        /\ Len(gExecution) =
              Cardinality({i \in 1..Len(gEdges) :
                              OntoField(gEdges[i]) /\ NotSkipped(gEdges[i])})

\* an export of one mapping from a canvas with a second edge, left by a
\* splitter, onto a target field
C30_Witness ==
    /\ gConfig # <<>>
    /\ Len(gExecution) = 1
    /\ \E i \in 1..Len(gEdges) : OntoField(gEdges[i]) /\ OriginOfOtherType(gEdges[i])

\* the same with the second edge left by a node removed from the canvas,
\* a state SpecEdit reaches as well
SkippedMissingOrigin ==
    /\ gConfig # <<>>
    /\ Len(gExecution) = 1
    /\ \E i \in 1..Len(gEdges) : OntoField(gEdges[i]) /\ OriginMissing(gEdges[i])

\* node, field and edge positions <<n, k, i>> of the edges that are exported:
\* edge i ends on field k of the target node at position n of the nodes list
ExportedPlaces ==
    {p \in (1..Len(gNodes)) \X (1..2) \X (1..Len(gEdges)) :
        /\ gNodes[p[1]].type = "target"
        /\ p[2] <= Len(gNodes[p[1]].data.fields)
        /\ gEdges[p[3]].target = gNodes[p[1]].id
        /\ gEdges[p[3]].targetHandle = gNodes[p[1]].data.fields[p[2]].id
        /\ EdgeMappings(gNodes, gEdges, gEdges[p[3]], gNodes[p[1]].data.fields[p[2]]) # <<>>}

\* node position first, then field position, then edge position
PlaceBefore(p, q) ==
    \/ p[1] < q[1]
    \/ p[1] = q[1] /\ p[2] < q[2]
    \/ p[1] = q[1] /\ p[2] = q[2] /\ p[3] < q[3]

PlaceRank(p) == 1 + Cardinality({q \in ExportedPlaces : PlaceBefore(q, p)})

\* C31: the exported mappings are listed by position of the target node in
\* the nodes list, then of the field in the node's field list, then of the
\* edge in the edges list, and a second call on the same canvas gives the
\* same list
C31_MappingsInNodeFieldEdgeOrder ==
    gConfig # <<>> =>
        /\ Len(gExecution) = Cardinality(ExportedPlaces)
        /\ \A p \in ExportedPlaces :
              gExecution[PlaceRank(p)] =
                  EdgeMappings(gNodes, gEdges, gEdges[p[3]],
                               gNodes[p[1]].data.fields[p[2]])[1]
        /\ ExportExecutionMapping(gNodes, gEdges) = gExecution

\* two mappings exported in the order of their fields or target nodes,
\* against the order of their edges
C31_Witness ==
    /\ gConfig # <<>>
    /\ Len(gExecution) = 2
    /\ \E p, q \in ExportedPlaces : PlaceBefore(p, q) /\ q[3] < p[3]

\* the types the statement keeps out of nodes.transforms
StructuralTypes == {"source", "target", "conversionMapping", "mapping"}

\* every node in exactly one list, and in transforms exactly when its type
\* is not structural
PlacedByType(nodes, config) ==
    \A i \in 1..Len(nodes) :
        /\ ListsHolding(config, nodes[i].id) = 1
        /\ nodes[i].id \in ListedIds(config.transforms)
              <=> nodes[i].type \notin StructuralTypes
        /\ nodes[i].type \in {"conversionMapping", "mapping"}
              => nodes[i].id \in ListedIds(config.mappings)

\* C32: the UI export lists every node in exactly one of sources, targets,
\* transforms and mappings, and in transforms exactly when its type is none
\* of source, target, conversionMapping and mapping; so on the canvas an
\* import has loaded, whose mapping nodes have type mapping
C32_ImportedNodesPlacedByType ==
    gImported # <<>> =>
        PlacedByType(gImported[1].nodes,
                     ExportUIMappingConfiguration(gImported[1].nodes, gImported[1].edges,
                                                  "Untitled Mapping"))

\* the same on the canvas the user built, where no node has type mapping
Canvas_NodesPlacedByType ==
    gConfig # <<>> => PlacedByType(gNodes, gConfig[1])

Filled(list) == list.present /\ list.items # <<>>

\* the first of three lists that holds an entry, and no entries without one
FirstFilled(a, b, c) ==
    IF Filled(a) THEN a.items
    ELSE IF Filled(b) THEN b.items
    ELSE IF Filled(c) THEN c.items
    ELSE <<>>

\* the rules a coalesce node of the canvas holds in its three locations
RulesOnNode(node) ==
    FirstFilled(node.data.rules, node.data.config.parameterRules, node.data.config.rules)

\* the rules a coalesce entry of a configuration holds in its three locations
RulesInEntry(entry) ==
    FirstFilled(entry.nodeData.rules, entry.parameters.rules, entry.configData.rules)

\* the export of the canvas lists the rules of each coalesce node
ExportTakesFirstFilledRules ==
    (gConfig # <<>> /\ gImported = <<>>) =>
        \A i \in 1..Len(gNodes) :
            IsCoalesce(gNodes[i]) =>
                \E k \in 1..Len(gConfig[1].transforms) :
                    /\ gConfig[1].transforms[k].id = gNodes[i].id
                    /\ gConfig[1].transforms[k].nodeData.rules.items = RulesOnNode(gNodes[i])
                    /\ gConfig[1].transforms[k].parameters.rules.items = RulesOnNode(gNodes[i])

\* the import of a configuration gives each coalesce node the rules of its entry
ImportTakesFirstFilledRules ==
    gImported # <<>> =>
        \A k \in 1..Len(gConfig[1].transforms) :
            gConfig[1].transforms[k].transformType = "coalesce" =>
                \E i \in 1..Len(gImported[1].nodes) :
                    /\ gImported[1].nodes[i].id = gConfig[1].transforms[k].id
                    /\ gImported[1].nodes[i].data.rules.items
                          = RulesInEntry(gConfig[1].transforms[k])

\* C33: for a coalesce transform the UI export and the import take the rules
\* from the first location, of data.rules or nodeData.rules,
\* config.parameters.rules and config.rules, that holds a non-empty list
C33_RulesFromFirstNonEmptyLocation ==
    ExportTakesFirstFilledRules /\ ImportTakesFirstFilledRules

\* the import alone, for entries whose lists are missing or hold a rule
Import_RulesFromFirstPresentLocation ==
    gImported # <<>> =>
        \A k \in 1..Len(gConfig[1].transforms) :
            (/\ gConfig[1].transforms[k].transformType = "coalesce"
             /\ \A l \in {gConfig[1].transforms[k].nodeData.rules,
                          gConfig[1].transforms[k].parameters.rules,
                          gConfig[1].transforms[k].configData.rules} :
                    l.present => l.items # <<>>) =>
                \E i \in 1..Len(gImported[1].nodes) :
                    /\ gImported[1].nodes[i].id = gConfig[1].transforms[k].id
                    /\ gImported[1].nodes[i].data.rules.items
                          = RulesInEntry(gConfig[1].transforms[k])

\* the edges of the canvas that end on a first-level field of a target node
EdgesOntoFields == {i \in 1..Len(gEdges) : OntoField(gEdges[i])}

\* a node that an edge of the canvas leads back to: one that feeds itself, or
\* two that feed each other
FeedsInCircle ==
    \E i, j \in 1..Len(gEdges) :
        gEdges[i].source = gEdges[j].target /\ gEdges[i].target = gEdges[j].source

\* C39: exportExecutionMapping comes to an end on every canvas, circles of
\* transform nodes and nodes that feed themselves included: for an edge into
\* a target field it looks at most three nodes up, and the export holds at
\* most one mapping for each such edge
C39_WalkIsAtMostThreeNodes ==
    gConfig # <<>> =>
        /\ \A i \in EdgesOntoFields : Len(BackwardWalk(gNodes, gEdges, gEdges[i])) <= 3
        /\ Len(gExecution) <= Cardinality(EdgesOntoFields)

\* the export of a canvas where a transform node feeds itself and a
\* conversion mapping, which feeds a target field
C39_Witness ==
    /\ gConfig # <<>>
    /\ FeedsInCircle
    /\ \E i \in EdgesOntoFields : Len(BackwardWalk(gNodes, gEdges, gEdges[i])) = 3
    /\ Len(gExecution) = 1
----------------------------------------------------------------------------
(* Claims on the generate-ai-mapping request handler *)

RECURSIVE JoinTexts(_)
JoinTexts(list) ==
    IF Len(list) = 1 THEN list[1] ELSE list[1] \o <<",">> \o JoinTexts(Tail(list))

\* the texts of JSON values of at most MaxRawLen tokens, by the grammar
RECURSIVE JsonTexts(_)
JsonTexts(depth) ==
    IF depth = 0 THEN {<<"o">>, <<"n">>, <<"[", "]">>}
    ELSE LET inner == JsonTexts(depth - 1)
             lists == UNION {[1..k -> inner] : k \in 1..(MaxRawLen \div 2)}
         IN  inner \cup {t \in {<<"[">> \o JoinTexts(list) \o <<"]">> : list \in lists} :
                            Len(t) <= MaxRawLen}

ValidJsonTexts == JsonTexts(MaxRawLen \div 2)

\* the text from the first "[" to the last "]" of an answer that has both
HasBrackets(raw) ==
    /\ \E i \in 1..Len(raw) : raw[i] = "["
    /\ \E i \in 1..Len(raw) : raw[i] = "]"

BracketedSlice(raw) ==
    LET first == CHOOSE i \in 1..Len(raw) : raw[i] = "[" /\ \A j \in 1..(i - 1) : raw[j] # "["
        last_ == CHOOSE i \in 1..Len(raw) : raw[i] = "]" /\ \A j \in (i + 1)..Len(raw) : raw[j] # "]"
    IN  SubSeq(raw, first, last_)

OracleAsked == aiRequest.served /\ aiRequest.auth = "valid" /\ aiRequest.key

\* C22: an oracle answer without "[", without "]", or whose bracketed slice
\* is not valid JSON ends the request with status 500 and a body that has an
\* error field and nothing else; no response body has an error together with
\* mappings or canvas
C22_BadAnswerIsOneError ==
    /\ (OracleAsked /\ (~HasBrackets(aiRequest.raw)
                        \/ BracketedSlice(aiRequest.raw) \notin ValidJsonTexts)) =>
          /\ aiResponse.status = 500
          /\ DOMAIN aiResponse.body = {"error"}
    /\ "error" \in DOMAIN aiResponse.body =>
          DOMAIN aiResponse.body \cap {"mappings", "canvas"} = {}

\* an answer with no "[" that ends in "]": slice(-1, length) is "]"
C22_Witness ==
    /\ OracleAsked
    /\ aiRequest.raw = <<"x", "o", "]">>
    /\ aiResponse.status = 500

\* an answer whose slice is a list of two values goes through
Serve_GoodAnswerIsServed ==
    (OracleAsked /\ aiRequest.raw = <<"[", "o", ",", "o", "]">>) =>
        /\ aiResponse.status = 200
        /\ Len(aiResponse.body.mappings) = 2
        /\ Len(aiResponse.body.canvas.nodes) = 2
----------------------------------------------------------------------------
(* Claims on the schema editor *)

\* C34: after any sequence of addField, updateField and deleteField from an
\* empty list, every field with groupBy set has type array and its groupBy
\* is the name of one of its children
C34_GroupByNamesChildOfArray ==
    \A field \in FieldsIn(schemaFields) :
        field.groupBy # Undef =>
            /\ field.type = "array"
            /\ \E k \in 1..Len(field.children) : field.children[k].name = field.groupBy
----------------------------------------------------------------------------
(* Claims on generateMappingFromFiles *)

\* a list of at most 20 records, each an output of redactSample
RedactedSamples(list) ==
    /\ Len(list) <= MAX_SAMPLES
    /\ \A i \in 1..Len(list) :
          \E row \in 1..MaxFileLen :
              list[i] = RedactSample([row |-> row, redacted |-> FALSE])

\* the redacted first records of a file of n rows, in the file's order
SamplesOfFile(list, n) ==
    /\ Len(list) = IF n < MAX_SAMPLES THEN n ELSE MAX_SAMPLES
    /\ \A i \in 1..Len(list) : list[i] = [row |-> i, redacted |-> TRUE]

\* C36: a request makes at most one call to the edge function and none
\* without a session; sourceData and targetData of a call hold at most 20
\* records each, every one of them an output of redactSample
C36_OneCallOfRedactedSamples ==
    /\ [](genCalls > 0 =>
            RedactedSamples(genSent.sourceData) /\ RedactedSamples(genSent.targetData))
    /\ [][/\ genCalls' <= genCalls + 1
          /\ genRequest'.count = genRequest.count + 1
          /\ ~genRequest'.session => genCalls' = genCalls /\ genSent' = genSent
          /\ genCalls' = genCalls + 1 =>
                /\ SamplesOfFile(genSent'.sourceData, genRequest'.source)
                /\ SamplesOfFile(genSent'.targetData, genRequest'.target)]_vars

\* a call made for files of more than 20 rows
C36_Witness ==
    /\ genCalls = 1
    /\ genRequest.source > MAX_SAMPLES /\ genRequest.target > MAX_SAMPLES
    /\ Len(genSent.sourceData) = MAX_SAMPLES /\ Len(genSent.targetData) = MAX_SAMPLES
====
